---- MODULE Spec2Model ----
(***************************************************************************)
(* A model of ldir: the GroupedString alignment registry                   *)
(* (modules/GroupedString.py), the older SString registry                  *)
(* (modules/sstring.py) and the directory walk of modules/fs_elements.py.  *)
(***************************************************************************)
EXTENDS Integers, Sequences, FiniteSets, TLC

\* ---------------------------------------------------------------- bounds
\* Longest text (in characters) given to a GroupedString or an SString.
MaxLen == 2
\* Number of GroupedString objects that can exist at the same time.
NInst == 2
\* Number of threads that call into a registry concurrently.
NThreads == 2
\* Number of entries below the root directory in the file system walked.
NNodes == 4
\* The Field objects made one after the other, and their largest index.
MaxFields == 2
MaxIndex == 12
\* The most elements one list sorted has.
MaxItems == 2
MaxCalls == 3

\* The group names the clients use.
Groups == {"a", "b"}
Inst == 1 .. NInst
Thr == 1 .. NThreads
Texts == {[i \in 1 .. n |-> "x"] : n \in 0 .. MaxLen}

\* dict.get(group, -1): the value for a missing key.
Sentinel == -1

\* ------------------------------------------------------- GroupedString state
VARIABLES
    instances,    \* GroupedString.__instances: group -> WeakSet of objects
    max_length,   \* GroupedString.__max_length: group -> int
    text,         \* x.__text of every object
    group,        \* x.__group of every object
    alive,        \* the objects that exist (constructed, not yet finalized)
    last          \* the call that was made last (history)

gsvars == <<instances, max_length, text, group, alive, last>>

\* --------------------------------- threads calling GroupedString concurrently
VARIABLES
    pc,           \* where each thread is in the call it is making
    cur,          \* the arguments of that call: object, text, group
    lock,         \* GroupedString.__lock: the thread that holds it, 0 if free
    thr_exc       \* the exception each thread's last call ended with

thrvars == <<pc, cur, lock, thr_exc>>

\* ------------------------------------------------------------ SString state
VARIABLES
    maxCustomLength,  \* SString.__maxCustomLength: group -> int
    ss_lock,          \* SString.__lock: the thread that holds it, 0 if free
    ss_pc,            \* where each thread is in its SString call
    ss_cur,           \* the locals of that call
    registered        \* per group, the largest length a finished SString(...)
                      \* call has registered (history)

ssvars == <<maxCustomLength, ss_lock, ss_pc, ss_cur, registered>>

\* ---------------------------------------------------- fs_elements.py state
VARIABLES
    fs,       \* the directory tree on disk, and what os.scandir does on each
    root_args, \* the arguments of RootDirectoryElement(path, ...)
    config,   \* the Config made by RootDirectoryElement.__init__
    elem,     \* the FileSystemElement objects, one per entry met by the walk
    stack,    \* the DirectoryElement constructors running, innermost last
    status,   \* of the RootDirectoryElement(...) call
    stderr,   \* the directories named on sys.stderr, in order
    exc,      \* the directory whose listing raised out of the call
    prev,     \* the outcome of the RootDirectoryElement(...) call made before
    calls,    \* the calls of func made by the last apply_to_each
    data,     \* the Data made from the snapshot
    fields,   \* the Field objects made one by one, and their GroupedStrings
    sorting,  \* the last sort: strategy, elements listed, outcome
    cfg,      \* a Config object and the set_config calls made on it
    susp,     \* the call each thread was making when a finalizer cut in
    strings,  \* the SString objects made one by one: text and group of each
    assigned  \* the element a caller assigned a parent to, and that parent

libvars == <<fields, sorting, cfg, susp, strings, assigned>>
readvars == <<calls, data>>
walkvars == <<fs, root_args, config, elem, stack, status, stderr, exc, prev,
              readvars>>

vars == <<gsvars, thrvars, ssvars, walkvars, libvars>>

\* ------------------------------------------------------------ dict helpers
EmptyDict == [k \in {} |-> 0]
DictGet(d, k, default) == IF k \in DOMAIN d THEN d[k] ELSE default
DictSet(d, k, v) == [j \in DOMAIN d \cup {k} |-> IF j = k THEN v ELSE d[j]]
DictDel(d, k) == [j \in DOMAIN d \ {k} |-> d[j]]

MaxOf(S) == CHOOSE m \in S : \A y \in S : y <= m
MinOf(S) == CHOOSE m \in S : \A y \in S : m <= y

\* ---------------------------------------------------------- str.ljust etc.
Spaces(n) == [i \in 1 .. n |-> " "]
Pad(n) == IF n > 0 THEN n ELSE 0
\* str.ljust(width), str.rjust(width): no truncation when width <= len.
Ljust(s, width) == s \o Spaces(Pad(width - Len(s)))
Rjust(s, width) == Spaces(Pad(width - Len(s))) \o s
\* str.center(width): CPython puts marg/2 + (marg & width & 1) spaces left.
Center(s, width) ==
    LET marg == Pad(width - Len(s))
        left == (marg \div 2) + ((marg % 2) * (width % 2))
    IN  Spaces(left) \o s \o Spaces(marg - left)

\* --------------------------------------------------- GroupedString methods
\* The registry and the objects as one value R, so that a method is a function
\* from R to R; exc names the exception the call ended with ("none": returned).
Reg == [instances |-> instances, max_length |-> max_length,
        text |-> text, group |-> group, exc |-> "none"]

\* max((len(x.text) for x in cls.__instances[group]), default=0)
NewMaxLengthMin(R, g) ==
    IF R.instances[g] = {} THEN 0
    ELSE MinOf({Len(R.text[x]) : x \in R.instances[g]})
NewMaxLength(R, g) ==
    IF R.instances[g] = {} THEN 0
    ELSE MaxOf({Len(R.text[x]) : x \in R.instances[g]})

\* update_max_length_for_group(group)
update_max_length_for_group(R, g) ==
    IF g \notin DOMAIN R.instances
    THEN [R EXCEPT !.exc = "KeyError"]
    ELSE IF R.instances[g] = {}
    THEN \* both dels, then cls.__instances[group] raises KeyError
         LET R1 == [R EXCEPT !.instances = DictDel(@, g)]
         IN  IF g \notin DOMAIN R.max_length
             THEN [R1 EXCEPT !.exc = "KeyError"]
             ELSE [R1 EXCEPT !.max_length = DictDel(@, g), !.exc = "KeyError"]
    ELSE [R EXCEPT !.max_length = DictSet(@, g, NewMaxLength(R, g))]

\* __init__, lines 127-128: the fields of the new object.
init_fields(R, x, g) == [R EXCEPT !.text[x] = <<>>, !.group[x] = g]

\* __init__, with the add of line 136 left out.
init_register_NoAdd(R, x) ==
    LET g == R.group[x]
    IN  [R EXCEPT !.instances = DictSet(@, g, DictGet(@, g, {}))]
\* __init__, lines 131-136: under the lock, the object joins its group's set.
init_register(R, x) ==
    LET g == R.group[x]
    IN  [R EXCEPT !.instances = DictSet(@, g, DictGet(@, g, {}) \cup {x})]

\* text.setter, with the recomputation of line 160 left out.
text_setter_NoUpdate(R, x, t) == [R EXCEPT !.text[x] = t]
\* text.setter
text_setter(R, x, t) ==
    LET R1 == [R EXCEPT !.text[x] = t]
    IN  update_max_length_for_group(R1, R1.group[x])

\* __init__(text, group)
gs_init(R, x, t, g) == text_setter(init_register(init_fields(R, x, g), x), x, t)

\* group.setter, with the recomputation of line 220 left out.
group_setter_NoOldUpdate(R, x, new_group) ==
    LET old_group == R.group[x]
    IN  IF old_group = new_group THEN R
        ELSE
        LET R1 == [R EXCEPT !.instances[old_group] = @ \ {x}]
            R2 == IF R1.instances[old_group] = {}
                  THEN [R1 EXCEPT !.instances = DictDel(@, old_group),
                                  !.max_length = DictDel(@, old_group)]
                  ELSE R1
            R3 == [R2 EXCEPT
                     !.group[x] = new_group,
                     !.instances =
                         DictSet(@, new_group, DictGet(@, new_group, {}) \cup {x})]
        IN  update_max_length_for_group(R3, new_group)
\* group.setter
group_setter(R, x, new_group) ==
    LET old_group == R.group[x]
    IN  IF old_group = new_group THEN R
        ELSE IF old_group \notin DOMAIN R.instances
        THEN [R EXCEPT !.exc = "KeyError"]
        ELSE
        LET R1 == [R EXCEPT !.instances[old_group] = @ \ {x}]
            R2 == IF R1.instances[old_group] = {}
                  THEN IF old_group \in DOMAIN R1.max_length
                       THEN [R1 EXCEPT !.instances = DictDel(@, old_group),
                                       !.max_length = DictDel(@, old_group)]
                       ELSE [R1 EXCEPT !.instances = DictDel(@, old_group),
                                       !.exc = "KeyError"]
                  ELSE update_max_length_for_group(R1, old_group)
        IN  IF R2.exc # "none" THEN R2
            ELSE
            LET R3 == [R2 EXCEPT
                         !.group[x] = new_group,
                         !.instances =
                             DictSet(@, new_group, DictGet(@, new_group, {}) \cup {x})]
            IN  update_max_length_for_group(R3, new_group)

\* __del__, with the del of line 281 left out.
gs_del_KeepMax(R, x) ==
    LET g == R.group[x]
    IN  IF g \notin DOMAIN R.instances
        THEN [R EXCEPT !.exc = "KeyError"]
        ELSE
        LET R1 == [R EXCEPT !.instances[g] = @ \ {x}]
        IN  IF R1.instances[g] = {}
            THEN [R1 EXCEPT !.instances = DictDel(@, g)]
            ELSE update_max_length_for_group(R1, g)
\* __del__
gs_del(R, x) ==
    LET g == R.group[x]
    IN  IF g \notin DOMAIN R.instances
        THEN [R EXCEPT !.exc = "KeyError"]
        ELSE
        LET R1 == [R EXCEPT !.instances[g] = @ \ {x}]
        IN  IF R1.instances[g] = {}
            THEN IF g \in DOMAIN R1.max_length
                 THEN [R1 EXCEPT !.instances = DictDel(@, g),
                                 !.max_length = DictDel(@, g)]
                 ELSE [R1 EXCEPT !.instances = DictDel(@, g), !.exc = "KeyError"]
            ELSE update_max_length_for_group(R1, g)

\* max(cls.__max_length.get(group, -1) for group in args)
UnifiedMaxMin(ml, args) == MinOf({DictGet(ml, g, Sentinel) : g \in args})
UnifiedMax(ml, args) == MaxOf({DictGet(ml, g, Sentinel) : g \in args})

\* unify_lengths_for_groups(*args)
unify_lengths_for_groups(R, args) ==
    IF args = {}
    THEN [R EXCEPT !.exc = "ValueError"]   \* max() of an empty sequence
    ELSE LET max_ == UnifiedMax(R.max_length, args)
         IN  [R EXCEPT !.max_length =
                  [g \in DOMAIN @ \cup args |-> IF g \in args THEN max_ ELSE @[g]]]

\* text_padding_length_for_group(group), text_padding_length
text_padding_length_for_group(g) == DictGet(max_length, g, Sentinel)
text_padding_length(x) == DictGet(max_length, group[x], Sentinel)

\* value, ljust_text, rjust_text, center_text
value(x) == <<text[x], text_padding_length(x) - Len(text[x])>>
ljust_text(x) == Ljust(text[x], text_padding_length(x))
rjust_text(x) == Rjust(text[x], text_padding_length(x))
center_text(x) == Center(text[x], text_padding_length(x))

\* get_instances_len_all()
get_instances_len_all ==
    LET RECURSIVE Sum(_)
        Sum(S) == IF S = {} THEN 0
                  ELSE LET g == CHOOSE h \in S : TRUE
                       IN  Cardinality(instances[g]) + Sum(S \ {g})
    IN  Sum(DOMAIN instances)

\* ------------------------------------------------- the tree on disk
\* The root directory is node 0; the entries below it are 1 .. NNodes, the
\* entries of directory d being 2d+1 and 2d+2, which os.scandir yields in
\* this order.
Nodes == 0 .. NNodes
Root == 0
NoNode == -1
Parent(n) == (n - 1) \div 2

\* One letter per entry, so that no two entries of a directory share a name.
NodeChar == <<"r", "a", "b", "c", "d", "e", "f", "g", "h">>

\* The entry n is on disk when every directory above it is a directory.
RECURSIVE OnDisk(_, _)
OnDisk(dirs, n) ==
    \/ n = Root
    \/ /\ Parent(n) \in dirs \cup {Root}
       /\ OnDisk(dirs, Parent(n))

\* What the root path names.
RootKinds == {"dir", "file", "missing"}

\* The files of a tree.
FilesOnDisk(dirs) == {n \in 1 .. NNodes : OnDisk(dirs, n) /\ n \notin dirs}

\* The inode number of the root; the entries have the numbers that follow,
\* so that some numbers have one digit and some two.
InodeBase == 8

\* What sets one entry of a tree apart: os.scandir of the directory raises
\* PermissionError ("perm") or another OSError ("os"), the directory is
\* not writable ("ro"), or the file is a second name (a hard link) of the
\* first file of the tree ("link").
Kinds == {"perm", "os", "ro", "link"}

\* A tree: what the root path names, which entries are directories, every
\* entry's name and inode number, and the entry set apart.
MkFs(root, dirs, dotted, bad, kind) ==
    [root |-> root,
     inode |-> [n \in Nodes |->
                   InodeBase + (IF n = bad /\ kind = "link"
                                THEN MinOf(FilesOnDisk(dirs)) ELSE n)],
     readonly |-> IF kind = "ro" THEN {bad} \ {NoNode} ELSE {},
     isdir |-> [n \in Nodes |-> n \in dirs \/ (n = Root /\ root = "dir")],
     name |-> [n \in Nodes |->
                  IF n \in dotted THEN <<".", NodeChar[n + 1]>>
                  ELSE <<NodeChar[n + 1]>>],
     err |-> [n \in Nodes |->
                 IF n = bad /\ kind \in {"perm", "os"} THEN kind ELSE "ok"],
     gone |-> {}]

NoFs == MkFs("dir", {}, {}, NoNode, "perm")

\* The trees told apart: only entries on disk are directories or have a
\* dotted name, only a directory on disk fails to list or is not writable,
\* and only a file on disk that is not the first one is a second name.
IsTree(root, dirs, dotted, bad, kind) ==
    /\ \A n \in dirs \cup dotted : OnDisk(dirs, n)
    /\ root # "dir" => dirs = {} /\ dotted = {} /\ bad = NoNode
    /\ bad = NoNode => kind = "perm"
    /\ (bad # NoNode /\ kind # "link") => bad \in dirs \cup {Root}
    /\ (bad # NoNode /\ kind = "link") =>
           /\ bad \in FilesOnDisk(dirs)
           /\ bad # MinOf(FilesOnDisk(dirs))

RECURSIVE SortedSeq(_)
SortedSeq(S) ==
    IF S = {} THEN <<>>
    ELSE LET m == MinOf(S) IN <<m>> \o SortedSeq(S \ {m})

\* os.scandir(path): it opens, or raises PermissionError ("perm") or another
\* OSError ("os"), NotADirectoryError when the path is no directory.
scandir_result(d) == IF fs.isdir[d] THEN fs.err[d] ELSE "os"

\* os.scandir(path) of a directory that opens: its entries.
scandir(d) ==
    SortedSeq({n \in 1 .. NNodes :
                  Parent(n) = d /\ fs.isdir[d] /\ n \notin fs.gone})

\* str.startswith
startswith(s, c) == Len(s) >= 1 /\ s[1] = c

\* ------------------------------------------------- fs_elements.py objects
\* Config(): the defaults.
NewConfig ==
    [recursive |-> FALSE, subdirectories |-> TRUE, hidden |-> FALSE,
     config_is_set |-> FALSE]

\* A Config() on which set_config has not been called: the object, the number
\* of calls, the arguments of the last call, the object as it was before the
\* last call, and whether a call before the last had three values.
NoCfg ==
    [obj |-> NewConfig, count |-> 0, last |-> <<>>, before |-> NewConfig,
     frozen |-> FALSE]

NoConfigArgs == [recursive |-> FALSE, subdirectories |-> FALSE, hidden |-> FALSE]

\* Config.set_config with three values that are not None, subdirectories
\* stored as given.
set_config_AsGiven(c, recursive, subdirectories, hidden) ==
    IF ~c.config_is_set
    THEN [recursive |-> recursive, subdirectories |-> subdirectories,
          hidden |-> hidden, config_is_set |-> TRUE]
    ELSE c
\* Config.set_config with three values that are not None.
set_config_SubdirectoriesOn(c, recursive, subdirectories, hidden) ==
    IF ~c.config_is_set
    THEN [recursive |-> recursive, subdirectories |-> TRUE, hidden |-> hidden,
          config_is_set |-> TRUE]
    ELSE c
set_config(c, recursive, subdirectories, hidden) ==
    IF ~c.config_is_set
    THEN [recursive |-> recursive,
          subdirectories |-> IF recursive THEN TRUE ELSE subdirectories,
          hidden |-> hidden,
          config_is_set |-> TRUE]
    ELSE c

\* No object: the entry has not been met.
NoElem ==
    [st |-> "absent", level |-> -1, parent |-> NoNode, is_hidden |-> FALSE,
     content_files |-> <<>>, content_directories |-> <<>>]

\* FileSystemElement.__init__ for an entry called name; kind is "file" for a
\* FileElement and "pending" for a DirectoryElement whose lists are None.
FileSystemElement_LevelZero(name, level, kind) ==
    [st |-> kind, level |-> 0, parent |-> NoNode,
     is_hidden |-> startswith(name, "."),
     content_files |-> <<>>, content_directories |-> <<>>]
FileSystemElement(name, level, kind) ==
    [st |-> kind, level |-> level, parent |-> NoNode,
     is_hidden |-> startswith(name, "."),
     content_files |-> <<>>, content_directories |-> <<>>]

\* The parent setter, with the test of line 149 left out.
set_parent_Overwrite(e, p) == [e EXCEPT !.parent = p]
\* The parent setter: only the first assignment is kept.
set_parent(e, p) ==
    IF e.parent = NoNode THEN [e EXCEPT !.parent = p] ELSE e

\* The except clause of _load_content.
CaughtNever(kind) == FALSE
Caught(kind) == kind = "perm"

\* The test both kinds of entry go through before they are appended.
IncludedAlways(c, e) == TRUE
Included(c, e) == c.hidden \/ ~e.is_hidden

\* The test at the head of the for loop: the entries of a directory at this
\* level are looked at.
DescendOneMore(c, level) == c.recursive \/ level < 2
Descend(c, level) == c.recursive \/ level < 1

\* _entry.is_dir()
is_dir_Never(e) == FALSE
is_dir(e) == fs.isdir[e]

\* The test at the head of _load_content: both lists are still None.
ListsAreNoneAlways(e) == TRUE
ListsAreNone(e) == e.st = "pending"

\* No apply_to_each call yet.
NoCalls == [on |-> NoNode, seq |-> <<>>]

\* The GroupedString objects of the fields of the entry of n: those of a
\* Data made while the entries of another Data are alive are other objects.
FieldIds == 1 .. 4 * (NNodes + 1)
IdBase_Shared == 0 * Len(data.others)
IdBase == IF data.others = <<>> THEN 0 ELSE 2 * (NNodes + 1)
MarkerId(n) == IdBase + 2 * n + 1
NameId(n) == IdBase + 2 * n + 2

\* The GroupedString class with no object.
NewReg ==
    [instances |-> EmptyDict, max_length |-> EmptyDict,
     text |-> [x \in FieldIds |-> <<>>], group |-> [x \in FieldIds |-> <<>>],
     exc |-> "none"]

\* Nothing sorted.
NoSort == [method |-> "", listed |-> <<>>, exc |-> "none", result |-> <<>>]

\* No Field made.
NoFields == [made |-> <<>>, reg |-> NewReg]

\* The Data before its loop.
NoData == [status |-> "none", entries |-> <<>>, reg |-> NewReg,
           rendered |-> FALSE, out |-> <<>>, others |-> <<>>]

NoOutcome ==
    [status |-> "none", change |-> "none", err |-> [n \in Nodes |-> "ok"],
     elem |-> [n \in Nodes |-> NoElem], stderr |-> <<>>, exc |-> NoNode,
     out |-> <<>>, kept |-> FALSE]

\* ------------------------------------------- the registry, one call at a time
NoGroup == ""
NoCall == [op |-> "none", x |-> 0, g |-> NoGroup, gs |-> {}, m |-> Sentinel,
           f |-> Sentinel, exc |-> "none"]

\* The live members of group g.
LiveIn(g) == {x \in alive : group[x] = g}

NoArgs == [x |-> 0, t |-> <<>>, g |-> NoGroup]

\* No call of the thread is suspended.
NoFrame == [pc |-> "none", cur |-> NoArgs]

NoLocals == [g |-> NoGroup, length |-> 0, args |-> <<>>, i |-> 0, max_ |-> Sentinel]

\* The classes as they are when the modules have been imported: no object,
\* empty dicts, free locks, no call running.
Init ==
    /\ instances = EmptyDict
    /\ max_length = EmptyDict
    /\ text = [x \in Inst |-> <<>>]
    /\ group = [x \in Inst |-> NoGroup]
    /\ alive = {}
    /\ last = NoCall
    /\ pc = [t \in Thr |-> "idle"]
    /\ cur = [t \in Thr |-> NoArgs]
    /\ lock = 0
    /\ thr_exc = [t \in Thr |-> "none"]
    /\ maxCustomLength = EmptyDict
    /\ ss_lock = 0
    /\ ss_pc = [t \in Thr |-> "idle"]
    /\ ss_cur = [t \in Thr |-> NoLocals]
    /\ registered = EmptyDict
    /\ fs = NoFs
    /\ root_args = NoConfigArgs
    /\ config = NewConfig
    /\ elem = [n \in Nodes |-> NoElem]
    /\ stack = <<>>
    /\ status = "none"
    /\ stderr = <<>>
    /\ exc = NoNode
    /\ prev = NoOutcome
    /\ calls = NoCalls
    /\ data = NoData
    /\ fields = NoFields
    /\ sorting = NoSort
    /\ cfg = NoCfg
    /\ susp = [t \in Thr |-> NoFrame]
    /\ strings = <<>>
    /\ assigned = <<>>

Install(R) ==
    /\ instances' = R.instances
    /\ max_length' = R.max_length
    /\ text' = R.text
    /\ group' = R.group

\* x = GroupedString(t, g)
Construct(x, t, g) ==
    /\ x \notin alive
    /\ LET R == gs_init(Reg, x, t, g)
       IN  /\ Install(R)
           /\ last' = [op |-> "init", x |-> x, g |-> g, gs |-> {},
                       m |-> DictGet(max_length, g, Sentinel),
                       f |-> IF /\ last.op = "del"
                                /\ last.g = g
                                /\ g \notin DOMAIN instances
                             THEN last.m ELSE Sentinel,
                       exc |-> R.exc]
    /\ alive' = alive \cup {x}
    /\ UNCHANGED <<thrvars, ssvars, walkvars, libvars>>

\* x.text = t
SetText(x, t) ==
    /\ x \in alive
    /\ LET R == text_setter(Reg, x, t)
       IN  /\ Install(R)
           /\ last' = [NoCall EXCEPT !.op = "text", !.x = x, !.g = group[x],
                          !.m = DictGet(max_length, group[x], Sentinel),
                          !.exc = R.exc]
    /\ UNCHANGED <<alive, thrvars, ssvars, walkvars, libvars>>

\* x.group = g
SetGroup(x, g) ==
    /\ x \in alive
    /\ LET R == group_setter(Reg, x, g)
       IN  /\ Install(R)
           /\ last' = [NoCall EXCEPT !.op = "group", !.x = x, !.g = g,
                          !.gs = {group[x]},
                          !.m = DictGet(max_length, g, Sentinel),
                          !.exc = R.exc]
    /\ UNCHANGED <<alive, thrvars, ssvars, walkvars, libvars>>

\* The last reference to x is dropped: x.__del__() runs and x is gone.
Dispose(x) ==
    /\ x \in alive
    /\ LET R == gs_del(Reg, x)
       IN  /\ instances' = R.instances
           /\ max_length' = R.max_length
           /\ text' = [R.text EXCEPT ![x] = <<>>]
           /\ group' = [R.group EXCEPT ![x] = NoGroup]
           /\ last' = [NoCall EXCEPT !.op = "del", !.x = x, !.g = group[x],
                          !.m = DictGet(max_length, group[x], Sentinel),
                          !.exc = R.exc]
    /\ alive' = alive \ {x}
    /\ UNCHANGED <<thrvars, ssvars, walkvars, libvars>>

\* GroupedString.unify_lengths_for_groups(*args)
Unify(args) ==
    /\ LET R == unify_lengths_for_groups(Reg, args)
       IN  /\ Install(R)
           /\ last' = [NoCall EXCEPT !.op = "unify", !.gs = args,
                          !.m = IF args = {} THEN Sentinel
                                ELSE MaxOf({DictGet(max_length, g, Sentinel) : g \in args}),
                          !.exc = R.exc]
    /\ UNCHANGED <<alive, thrvars, ssvars, walkvars, libvars>>

Next ==
    \/ \E x \in Inst, t \in Texts, g \in Groups : Construct(x, t, g)
    \/ \E x \in Inst, t \in Texts : SetText(x, t)
    \/ \E x \in Inst, g \in Groups : SetGroup(x, g)
    \/ \E x \in Inst : Dispose(x)
    \/ \E args \in SUBSET Groups : Unify(args)

Spec == Init /\ [][Next]_vars

\* The longest text among the live members of g (g has one).
MaxLiveLen(g) == MaxOf({Len(text[x]) : x \in LiveIn(g)})
StoredMax(g) == DictGet(max_length, g, Sentinel)

\* No call of the one-at-a-time registry raises, but unify_lengths_for_groups().
NoKeyError == last.exc # "KeyError"

\* C1: between calls, two live instances of one group give ljust_text,
\* rjust_text and center_text of one length: the stored maximum of the group
\* is at least every live member's text length, and the padding of .value is
\* never negative.
C1_SameWidthInGroup ==
    /\ \A x \in alive :
          /\ text_padding_length(x) >= Len(text[x])
          /\ value(x)[2] >= 0
    /\ \A x, y \in alive :
          group[x] = group[y] =>
              /\ Len(ljust_text(x)) = Len(ljust_text(y))
              /\ Len(rjust_text(x)) = Len(rjust_text(y))
              /\ Len(center_text(x)) = Len(center_text(y))
C1_Witness ==
    \E x, y \in alive :
        /\ group[x] = group[y]
        /\ Len(text[x]) < Len(text[y])
        /\ Len(ljust_text(x)) = Len(text[y])
        /\ value(x)[2] > 0

\* C2, as stated: while a group keeps a live member, its stored maximum never
\* decreases, whatever call is made.
C2_NeverDecreases ==
    [][\A g \in Groups :
          (LiveIn(g) # {} /\ LiveIn(g)' # {}) => StoredMax(g)' >= StoredMax(g)]_vars
\* C2, amended: while a group keeps a live member, a call leaves its stored
\* maximum either not smaller than before or equal to the longest text of its
\* live members (the recomputation made by a construction, a text assignment,
\* a group change or a disposal); unify_lengths_for_groups never decreases
\* it; the entry is removed only when no live member is left.
C2_DecreasesOnlyToLiveMax ==
    [][\A g \in Groups :
          /\ (LiveIn(g) # {} /\ LiveIn(g)' # {}) =>
                /\ g \in DOMAIN max_length'
                /\ \/ StoredMax(g)' >= StoredMax(g)
                   \/ StoredMax(g)' = MaxLiveLen(g)'
                /\ last'.op = "unify" => StoredMax(g)' >= StoredMax(g)
          /\ (g \in DOMAIN max_length /\ g \notin DOMAIN max_length') =>
                LiveIn(g)' = {}]_vars
C2_Witness ==
    /\ last.op \in {"text", "del", "group"}
    /\ LiveIn(last.g) # {}
    /\ StoredMax(last.g) < last.m
    /\ StoredMax(last.g) = MaxLiveLen(last.g)

\* C5: x = GroupedString(text, g) leaves max(m, len(text)) stored for g, m
\* being what was stored for g before the call (-1 if nothing was).
C5_ConstructStoresMax ==
    (last.op = "init" /\ last.exc = "none") =>
        StoredMax(last.g) =
            IF last.m > Len(text[last.x]) THEN last.m ELSE Len(text[last.x])

\* C6: text_padding_length_for_group(g) is -1 for every group g that has no
\* live member.
C6_NoMemberGivesSentinel ==
    \A g \in Groups : LiveIn(g) = {} => text_padding_length_for_group(g) = Sentinel

\* C7: the disposal of a group's last live member removes the group's member
\* set and its stored maximum, and an instance constructed in a group that has
\* no other live member leaves its own text length stored for the group.
C7_LastDisposalForgets ==
    /\ (last.op = "del" /\ LiveIn(last.g) = {}) =>
          /\ last.g \notin DOMAIN instances
          /\ last.g \notin DOMAIN max_length
    /\ (last.op = "init" /\ LiveIn(last.g) = {last.x}) =>
          /\ last.g \in DOMAIN max_length
          /\ max_length[last.g] = Len(text[last.x])
\* A shorter text constructed right after the disposal of the last member,
\* which had left a larger maximum.
C7_Witness ==
    /\ last.op = "init"
    /\ LiveIn(last.g) = {last.x}
    /\ last.f > Len(text[last.x])
    /\ max_length[last.g] = Len(text[last.x])

\* C8: unify_lengths_for_groups(g1, ..., gn), n >= 1, leaves stored for every
\* named group the largest value stored for any of them before the call (-1
\* for one without an entry), and leaves every other group's entry as it was.
C8_UnifyStoresLargest ==
    [][(last'.op = "unify" /\ last'.gs # {}) =>
          /\ \A g \in last'.gs :
                /\ g \in DOMAIN max_length'
                /\ max_length'[g] = MaxOf({StoredMax(h) : h \in last'.gs})
          /\ \A g \in Groups \ last'.gs :
                /\ (g \in DOMAIN max_length') = (g \in DOMAIN max_length)
                /\ StoredMax(g)' = StoredMax(g)]_vars
C8_Witness ==
    /\ last.op = "unify"
    /\ last.gs = Groups
    /\ \E g \in Groups : LiveIn(g) # {} /\ MaxLiveLen(g) < max_length[g]
    /\ \A g \in Groups : max_length[g] = last.m


\* ----------------------------- GroupedString called from several threads
\* A with-block of the class is two steps: the lock is taken, then the block
\* runs and the lock is released. What a method does outside the lock is a
\* step of its own.

\* The objects of the calls that have not returned.
InUse ==
    {cur[t].x : t \in {u \in Thr : pc[u] # "idle"}}
        \cup {susp[t].cur.x : t \in {u \in Thr : susp[u] # NoFrame}}

\* RLock.acquire(): free, or already held by the caller.
CanAcquire_NotReentrant(t) == lock = 0
CanAcquire(t) == lock \in {0, t}

\* x = GroupedString(txt, g): lines 127-128
TInitBegin(t, x, txt, g) ==
    /\ pc[t] = "idle"
    /\ x \notin alive
    /\ Install(init_fields(Reg, x, g))
    /\ alive' = alive \cup {x}
    /\ cur' = [cur EXCEPT ![t] = [x |-> x, t |-> txt, g |-> g]]
    /\ pc' = [pc EXCEPT ![t] = "init_lock"]
    /\ UNCHANGED <<last, lock, thr_exc, ssvars, walkvars, libvars>>

\* __init__, line 131
TInitLock(t) ==
    /\ pc[t] = "init_lock"
    /\ CanAcquire(t)
    /\ lock' = t
    /\ pc' = [pc EXCEPT ![t] = "init_register"]
    /\ UNCHANGED <<gsvars, cur, thr_exc, ssvars, walkvars, libvars>>

\* __init__, lines 133-136, and the lock is released
TInitRegister(t) ==
    /\ pc[t] = "init_register"
    /\ Install(init_register(Reg, cur[t].x))
    /\ lock' = 0
    /\ pc' = [pc EXCEPT ![t] = "text_write"]
    /\ UNCHANGED <<alive, last, cur, thr_exc, ssvars, walkvars, libvars>>

\* x.text = txt is called on an object no other call is using
TTextBegin(t, x, txt) ==
    /\ pc[t] = "idle"
    /\ x \in alive \ InUse
    /\ cur' = [cur EXCEPT ![t] = [x |-> x, t |-> txt, g |-> group[x]]]
    /\ pc' = [pc EXCEPT ![t] = "text_write"]
    /\ UNCHANGED <<gsvars, lock, thr_exc, ssvars, walkvars, libvars>>

\* text.setter, line 159 (of __init__'s line 138 too): no lock is held
TTextWrite(t) ==
    /\ pc[t] = "text_write"
    /\ text' = [text EXCEPT ![cur[t].x] = cur[t].t]
    /\ pc' = [pc EXCEPT ![t] = "update_lock"]
    /\ UNCHANGED <<instances, max_length, group, alive, last, cur, lock, thr_exc, ssvars, walkvars, libvars>>

\* update_max_length_for_group, line 234
TUpdateLock(t) ==
    /\ pc[t] = "update_lock"
    /\ CanAcquire(t)
    /\ lock' = t
    /\ pc' = [pc EXCEPT ![t] = "update"]
    /\ UNCHANGED <<gsvars, cur, thr_exc, ssvars, walkvars, libvars>>

\* update_max_length_for_group, lines 235-241, and the lock is released
TUpdate(t) ==
    /\ pc[t] = "update"
    /\ LET R == update_max_length_for_group(Reg, group[cur[t].x])
       IN  /\ Install(R)
           /\ thr_exc' = [thr_exc EXCEPT ![t] = R.exc]
    /\ lock' = 0
    /\ pc' = [pc EXCEPT ![t] = "idle"]
    /\ cur' = [cur EXCEPT ![t] = NoArgs]
    /\ UNCHANGED <<alive, last, ssvars, walkvars, libvars>>

\* The last reference to x is dropped by thread t: __del__, line 276
TDelLock(t, x) ==
    /\ pc[t] = "idle"
    /\ x \in alive \ InUse
    /\ CanAcquire(t)
    /\ lock' = t
    /\ cur' = [cur EXCEPT ![t] = [x |-> x, t |-> <<>>, g |-> group[x]]]
    /\ pc' = [pc EXCEPT ![t] = "del"]
    /\ UNCHANGED <<gsvars, thr_exc, ssvars, walkvars, libvars>>

\* __del__, lines 277-283, the lock is released and the object is gone
TDel(t) ==
    /\ pc[t] = "del"
    /\ LET x == cur[t].x
           R == gs_del(Reg, x)
       IN  /\ instances' = R.instances
           /\ max_length' = R.max_length
           /\ text' = [R.text EXCEPT ![x] = <<>>]
           /\ group' = [R.group EXCEPT ![x] = NoGroup]
           /\ alive' = alive \ {x}
           /\ thr_exc' = [thr_exc EXCEPT ![t] = R.exc]
    /\ lock' = 0
    /\ pc' = [pc EXCEPT ![t] = "idle"]
    /\ cur' = [cur EXCEPT ![t] = NoArgs]
    /\ UNCHANGED <<last, ssvars, walkvars, libvars>>

\* GroupedString.text_padding_length_for_group(g), line 265
TQueryLock(t, g) ==
    /\ pc[t] = "idle"
    /\ CanAcquire(t)
    /\ lock' = t
    /\ cur' = [cur EXCEPT ![t] = [x |-> 0, t |-> <<>>, g |-> g]]
    /\ pc' = [pc EXCEPT ![t] = "query"]
    /\ UNCHANGED <<gsvars, thr_exc, ssvars, walkvars, libvars>>

\* text_padding_length_for_group, line 266: the thread reads the registry as
\* it is now, and the lock is released
TQuery(t) ==
    /\ pc[t] = "query"
    /\ lock' = 0
    /\ pc' = [pc EXCEPT ![t] = "idle"]
    /\ cur' = [cur EXCEPT ![t] = NoArgs]
    /\ UNCHANGED <<gsvars, thr_exc, ssvars, walkvars, libvars>>

NextGSThreads ==
    \/ \E t \in Thr, x \in Inst, txt \in Texts, g \in Groups : TInitBegin(t, x, txt, g)
    \/ \E t \in Thr : TInitLock(t)
    \/ \E t \in Thr : TInitRegister(t)
    \/ \E t \in Thr, x \in Inst, txt \in Texts : TTextBegin(t, x, txt)
    \/ \E t \in Thr : TTextWrite(t)
    \/ \E t \in Thr : TUpdateLock(t)
    \/ \E t \in Thr : TUpdate(t)
    \/ \E t \in Thr, x \in Inst : TDelLock(t, x)
    \/ \E t \in Thr : TDel(t)
    \/ \E t \in Thr, g \in Groups : TQueryLock(t, g)
    \/ \E t \in Thr : TQuery(t)

SpecGSThreads == Init /\ [][NextGSThreads]_vars

\* The lock is held by a thread inside a with-block, and by no other.
LockHeldInsideBlocks ==
    /\ \A t \in Thr :
          (pc[t] \in {"init_register", "update", "del", "query"}) = (lock = t)
    /\ \A t \in Thr : thr_exc[t] = "none"

\* C3: a thread that reads text_padding_length_for_group(g) never gets a
\* negative value while the member set of g holds a live instance.
C3_NoNegativeForMembers ==
    \A t \in Thr :
        (pc[t] = "query" /\ DictGet(instances, cur[t].g, {}) # {}) =>
            text_padding_length_for_group(cur[t].g) >= 0

\* ----------------------------------- SString called from several threads
\* The tuples of group names given to unify_groups_lengths (with no name at
\* all max() raises ValueError before anything is read or written).
ArgTuples ==
    {<<g>> : g \in Groups} \cup {<<g, h>> : g, h \in Groups}

\* extraLength: None (the empty tuple here), or a length.
None == <<>>
ExtraLengths == {None} \cup {<<n>> : n \in 0 .. MaxLen}

Larger(a, b) == IF a >= b THEN a ELSE b

\* SString(txt, g, extraLength): lines 68-75, up to the lock being taken
SNewLock(t, txt, g, extraLength) ==
    /\ ss_pc[t] = "idle"
    /\ ss_lock = 0
    /\ ss_lock' = t
    /\ ss_cur' = [ss_cur EXCEPT ![t] =
           [NoLocals EXCEPT !.g = g,
                            !.length = IF extraLength # None THEN extraLength[1]
                                       ELSE Len(txt)]]
    /\ ss_pc' = [ss_pc EXCEPT ![t] = "new"]
    /\ UNCHANGED <<maxCustomLength, registered, gsvars, thrvars, walkvars, libvars>>

\* __new__, line 76, and the lock is released
SNew(t) ==
    /\ ss_pc[t] = "new"
    /\ LET g == ss_cur[t].g
           n == ss_cur[t].length
       IN  /\ maxCustomLength' =
                 DictSet(maxCustomLength, g,
                         Larger(DictGet(maxCustomLength, g, Sentinel), n))
           /\ registered' =
                 DictSet(registered, g, Larger(DictGet(registered, g, Sentinel), n))
    /\ ss_lock' = 0
    /\ ss_pc' = [ss_pc EXCEPT ![t] = "idle"]
    /\ ss_cur' = [ss_cur EXCEPT ![t] = NoLocals]
    /\ UNCHANGED <<gsvars, thrvars, walkvars, libvars>>

\* SString.unify_groups_lengths(*args) is called
SUnifyBegin(t, args) ==
    /\ ss_pc[t] = "idle"
    /\ ss_cur' = [ss_cur EXCEPT ![t] = [NoLocals EXCEPT !.args = args, !.i = 1]]
    /\ ss_pc' = [ss_pc EXCEPT ![t] = "unify_read"]
    /\ UNCHANGED <<maxCustomLength, ss_lock, registered, gsvars, thrvars, walkvars, libvars>>

\* line 103: the generator reads one group's entry; no lock is held
SUnifyRead(t) ==
    /\ ss_pc[t] = "unify_read"
    /\ LET c == ss_cur[t]
           v == DictGet(maxCustomLength, c.args[c.i], Sentinel)
           m == IF c.i = 1 THEN v ELSE Larger(c.max_, v)
       IN  /\ ss_cur' = [ss_cur EXCEPT ![t] = [c EXCEPT !.max_ = m, !.i = c.i + 1]]
           /\ ss_pc' = [ss_pc EXCEPT ![t] =
                  IF c.i = Len(c.args) THEN "unify_lock" ELSE "unify_read"]
    /\ UNCHANGED <<maxCustomLength, ss_lock, registered, gsvars, thrvars, walkvars, libvars>>

\* line 105
SUnifyLock(t) ==
    /\ ss_pc[t] = "unify_lock"
    /\ ss_lock = 0
    /\ ss_lock' = t
    /\ ss_cur' = [ss_cur EXCEPT ![t].i = 1]
    /\ ss_pc' = [ss_pc EXCEPT ![t] = "unify_update"]
    /\ UNCHANGED <<maxCustomLength, registered, gsvars, thrvars, walkvars, libvars>>

\* line 108: dict.update stores max_ for one group; after the last one the
\* lock is released
SUnifyUpdate(t) ==
    /\ ss_pc[t] = "unify_update"
    /\ LET c == ss_cur[t]
           done == c.i = Len(c.args)
       IN  /\ maxCustomLength' = DictSet(maxCustomLength, c.args[c.i], c.max_)
           /\ ss_cur' = [ss_cur EXCEPT ![t] =
                  IF done THEN NoLocals ELSE [c EXCEPT !.i = c.i + 1]]
           /\ ss_pc' = [ss_pc EXCEPT ![t] = IF done THEN "idle" ELSE "unify_update"]
           /\ ss_lock' = IF done THEN 0 ELSE ss_lock
    /\ UNCHANGED <<registered, gsvars, thrvars, walkvars, libvars>>

NextSS ==
    \/ \E t \in Thr, txt \in Texts, g \in Groups, e \in ExtraLengths :
          SNewLock(t, txt, g, e)
    \/ \E t \in Thr : SNew(t)
    \/ \E t \in Thr, args \in ArgTuples : SUnifyBegin(t, args)
    \/ \E t \in Thr : SUnifyRead(t)
    \/ \E t \in Thr : SUnifyLock(t)
    \/ \E t \in Thr : SUnifyUpdate(t)

SpecSS == Init /\ [][NextSS]_vars

\* ------------------------------------------- SString objects, one at a time
\* s = SString(txt, g, extraLength), no other call running: lines 68-78.
SStringNew(txt, g, extraLength) ==
    /\ Len(strings) < MaxItems
    /\ \A t \in Thr : ss_pc[t] = "idle"
    /\ LET length == IF extraLength # None THEN extraLength[1] ELSE Len(txt)
       IN  maxCustomLength' =
               DictSet(maxCustomLength, g,
                       Larger(DictGet(maxCustomLength, g, Sentinel), length))
    /\ strings' = Append(strings, [text |-> txt, group |-> g])
    /\ UNCHANGED <<ss_lock, ss_pc, ss_cur, registered, gsvars, thrvars, walkvars,
                   fields, sorting, cfg, susp, assigned>>

\* SString.unify_groups_lengths(*args), no other call running: lines 103-108.
SStringUnify(args) ==
    /\ \A t \in Thr : ss_pc[t] = "idle"
    /\ LET max_ == MaxOf({DictGet(maxCustomLength, args[i], Sentinel) :
                             i \in DOMAIN args})
       IN  maxCustomLength' =
               [g \in DOMAIN maxCustomLength \cup {args[i] : i \in DOMAIN args} |->
                   IF \E i \in DOMAIN args : args[i] = g THEN max_
                   ELSE maxCustomLength[g]]
    /\ UNCHANGED <<ss_lock, ss_pc, ss_cur, registered, gsvars, thrvars, walkvars,
                   libvars>>

\* s.max_length of the i-th SString made: line 88.
max_length_of(i) == DictGet(maxCustomLength, strings[i].group, Sentinel)

NextSString ==
    \/ \E txt \in Texts, g \in Groups, e \in ExtraLengths : SStringNew(txt, g, e)
    \/ \E args \in ArgTuples : SStringUnify(args)

SpecSString == Init /\ [][NextSString]_vars

\* C4: when every SString(...) and unify_groups_lengths call has returned, no
\* group's stored maximum is smaller than a length registered in that group,
\* as it would be had the calls run one at a time behind the lock.
C4_NoRegisteredLengthLost ==
    (\A t \in Thr : ss_pc[t] = "idle") =>
        \A g \in DOMAIN registered :
            DictGet(maxCustomLength, g, Sentinel) >= registered[g]

\* ------------------------------------------------------ the directory walk
\* The constructor that is running: the directory it builds, where it is
\* ("load": before os.scandir; "iter": in the for loop, at the idx-th
\* entry; "return": after the except clause), innermost last in stack.
Top == stack[Len(stack)]
Frame(n, where, idx) == [node |-> n, pc |-> where, idx |-> idx]
Running(where) ==
    /\ status = "walking"
    /\ stack # <<>>
    /\ Top.pc = where
SetTop(f) == [stack EXCEPT ![Len(stack)] = f]
AtEntry ==
    /\ Running("iter")
    /\ Top.idx <= Len(scandir(Top.node))

\* RootDirectoryElement.__init__ after Config().set_config(...): os.stat in
\* DirEntry raises when the path names nothing; otherwise the constructor of
\* DirectoryElement starts at level 0.
RootCall(f) ==
    IF f.root = "missing"
    THEN /\ elem' = [n \in Nodes |-> NoElem]
         /\ stack' = <<>>
         /\ status' = "raised"
    ELSE /\ elem' = [n \in Nodes |->
                        IF n = Root
                        THEN FileSystemElement(f.name[Root], 0, "pending")
                        ELSE NoElem]
         /\ stack' = <<Frame(Root, "load", 0)>>
         /\ status' = "walking"

\* RootDirectoryElement(path, recursive, subdirectories, hidden), up to the
\* call of _load_content, on a tree chosen here.
BuildRoot(recursive, subdirectories, hidden) ==
    /\ status = "none"
    /\ \E root \in RootKinds,
          dirs \in SUBSET (1 .. NNodes), dotted \in SUBSET (1 .. NNodes),
          bad \in {NoNode} \cup Nodes, kind \in Kinds :
            /\ IsTree(root, dirs, dotted, bad, kind)
            /\ fs' = MkFs(root, dirs, dotted, bad, kind)
    /\ root_args' = [recursive |-> recursive, subdirectories |-> subdirectories,
                     hidden |-> hidden]
    /\ config' = set_config(NewConfig, recursive, subdirectories, hidden)
    /\ RootCall(fs')
    /\ stderr' = <<>>
    /\ exc' = NoNode
    /\ calls' = NoCalls
    /\ data' = NoData
    /\ UNCHANGED <<prev, gsvars, thrvars, ssvars, libvars>>

\* _load_content: the lists become [] and os.scandir opens the directory.
ScandirOpens ==
    /\ Running("load")
    /\ ListsAreNone(elem[Top.node])
    /\ scandir_result(Top.node) = "ok"
    /\ elem' = [elem EXCEPT ![Top.node].st = "listing",
                            ![Top.node].content_files = <<>>,
                            ![Top.node].content_directories = <<>>]
    /\ stack' = SetTop(Frame(Top.node, "iter", 1))
    /\ UNCHANGED <<fs, root_args, config, status, stderr, exc, prev,
                   readvars, gsvars, thrvars, ssvars, libvars>>

\* _load_content: os.scandir raises and the except clause catches it.
ScandirCaught ==
    /\ Running("load")
    /\ ListsAreNone(elem[Top.node])
    /\ scandir_result(Top.node) # "ok"
    /\ Caught(scandir_result(Top.node))
    /\ elem' = [elem EXCEPT ![Top.node].st = "listing",
                            ![Top.node].content_files = <<>>,
                            ![Top.node].content_directories = <<>>]
    /\ stderr' = Append(stderr, Top.node)
    /\ stack' = SetTop(Frame(Top.node, "return", 0))
    /\ UNCHANGED <<fs, root_args, config, status, exc, prev,
                   readvars, gsvars, thrvars, ssvars, libvars>>

\* _load_content: os.scandir raises and no except clause catches it; the
\* exception leaves every constructor that is running.
ScandirRaises ==
    /\ Running("load")
    /\ ListsAreNone(elem[Top.node])
    /\ scandir_result(Top.node) # "ok"
    /\ ~Caught(scandir_result(Top.node))
    /\ elem' = [elem EXCEPT ![Top.node].st = "listing",
                            ![Top.node].content_files = <<>>,
                            ![Top.node].content_directories = <<>>]
    /\ exc' = Top.node
    /\ status' = "raised"
    /\ stack' = <<>>
    /\ UNCHANGED <<fs, root_args, config, stderr, prev, readvars, gsvars, thrvars, ssvars, libvars>>

\* The for loop: an entry below level 1 of a walk that is not recursive, or
\* a directory when subdirectories is off.
IterSkip ==
    /\ AtEntry
    /\ LET d == Top.node
           e == scandir(d)[Top.idx]
       IN  \/ ~Descend(config, elem[d].level)
           \/ is_dir(e) /\ ~config.subdirectories
    /\ stack' = SetTop(Frame(Top.node, "iter", Top.idx + 1))
    /\ UNCHANGED <<fs, root_args, config, elem, status, stderr, exc, prev,
                   readvars, gsvars, thrvars, ssvars, libvars>>

\* The for loop: a file.
IterFile ==
    /\ AtEntry
    /\ LET d == Top.node
           e == scandir(d)[Top.idx]
           element_file == FileSystemElement(fs.name[e], elem[d].level + 1, "file")
       IN  /\ Descend(config, elem[d].level)
           /\ ~is_dir(e)
           /\ elem' = IF Included(config, element_file)
                      THEN [elem EXCEPT
                               ![e] = set_parent(element_file, d),
                               ![d].content_files = Append(@, e)]
                      ELSE elem
    /\ stack' = SetTop(Frame(Top.node, "iter", Top.idx + 1))
    /\ UNCHANGED <<fs, root_args, config, status, stderr, exc, prev,
                   readvars, gsvars, thrvars, ssvars, libvars>>

\* The for loop: a directory; DirectoryElement(_entry, level + 1, config)
\* starts.
IterDirectory ==
    /\ AtEntry
    /\ LET d == Top.node
           e == scandir(d)[Top.idx]
       IN  /\ Descend(config, elem[d].level)
           /\ is_dir(e)
           /\ config.subdirectories
           /\ elem' = [elem EXCEPT
                          ![e] = FileSystemElement(fs.name[e], elem[d].level + 1,
                                                   "pending")]
           /\ stack' = Append(stack, Frame(e, "load", 0))
    /\ UNCHANGED <<fs, root_args, config, status, stderr, exc, prev,
                   readvars, gsvars, thrvars, ssvars, libvars>>

\* _load_content and the constructor return; the for loop of the directory
\* above appends the new element or drops it.
Return ==
    /\ \/ Running("return")
       \/ Running("iter") /\ Top.idx > Len(scandir(Top.node))
    /\ LET e == Top.node
           built == [elem EXCEPT ![e].st = "populated"]
       IN  IF Len(stack) = 1
           THEN /\ elem' = built
                /\ stack' = <<>>
                /\ status' = "done"
           ELSE LET up == stack[Len(stack) - 1]
                    d == up.node
                IN  /\ elem' = IF Included(config, built[e])
                               THEN [built EXCEPT
                                        ![e] = set_parent(@, d),
                                        ![d].content_directories = Append(@, e)]
                               ELSE built
                    /\ stack' = [SubSeq(stack, 1, Len(stack) - 1) EXCEPT
                                    ![Len(stack) - 1] =
                                        Frame(d, "iter", up.idx + 1)]
                    /\ UNCHANGED status
    /\ UNCHANGED <<fs, root_args, config, stderr, exc, prev, readvars, gsvars, thrvars, ssvars, libvars>>

\* The tree the next call walks: the same once every directory lists
\* ("listable"), or the same without the entries whose name starts with "."
\* and what is below them ("stripped").
Changes == {"listable", "stripped"}
Changed(f, change) ==
    IF change = "same" THEN f
    ELSE IF change = "listable"
    THEN [f EXCEPT !.err = [n \in Nodes |-> "ok"]]
    ELSE [f EXCEPT !.gone = {n \in 1 .. NNodes : startswith(f.name[n], ".")}]

\* The same call again, on the tree changed in one of these ways; the
\* change makes another tree of it.
Rebuild(change) ==
    /\ status \in {"done", "raised"}
    /\ prev.status = "none"
    /\ Changed(fs, change) # fs
    /\ prev' = [status |-> status, change |-> change, err |-> fs.err,
                elem |-> elem, stderr |-> stderr, exc |-> exc,
                out |-> <<>>, kept |-> FALSE]
    /\ fs' = Changed(fs, change)
    /\ config' = set_config(NewConfig, root_args.recursive,
                            root_args.subdirectories, root_args.hidden)
    /\ RootCall(fs')
    /\ stderr' = <<>>
    /\ exc' = NoNode
    /\ calls' = NoCalls
    /\ data' = NoData
    /\ UNCHANGED <<root_args, gsvars, thrvars, ssvars, libvars>>

\* d._load_content(config) called again on a directory of the snapshot the
\* caller holds, before the snapshot is read.
Reload(d) ==
    /\ status = "done"
    /\ calls = NoCalls
    /\ data.status = "none"
    /\ elem[d].st = "populated"
    /\ elem[d].parent # NoNode \/ d = Root
    /\ stack' = <<Frame(d, "load", 0)>>
    /\ status' = "walking"
    /\ UNCHANGED <<fs, root_args, config, elem, stderr, exc, prev,
                   readvars, gsvars, thrvars, ssvars, libvars>>

\* _load_content: the lists are not None, nothing is done.
LoadSkipped ==
    /\ Running("load")
    /\ ~ListsAreNone(elem[Top.node])
    /\ stack' = SubSeq(stack, 1, Len(stack) - 1)
    /\ status' = IF Len(stack) = 1 THEN "done" ELSE status
    /\ UNCHANGED <<fs, root_args, config, elem, stderr, exc, prev,
                   readvars, gsvars, thrvars, ssvars, libvars>>

\* DirectoryElement.is_empty
is_empty(e) == e.content_files = <<>> /\ e.content_directories = <<>>

\* The third argument of enumerate-and-compare in apply_to_each: the i-th of
\* len_ elements is the last one.
is_last_OffByOne(len_, i) == len_ - i <= 1
is_last(len_, i) == len_ - i < 1

\* One call func(element, is_last, level); element is NoNode for None.
Call(element, flag, level) ==
    [element |-> element, is_last |-> flag, level |-> level]

\* The calls d.apply_to_each(func) makes, in order, on the elements E.
RECURSIVE apply_to_each(_, _)
RECURSIVE each_directory(_, _, _)
apply_to_each_DirsFirst(E, d) ==
    IF is_empty(E[d])
    THEN <<Call(NoNode, TRUE, E[d].level)>>
    ELSE LET files == E[d].content_files
         IN  each_directory(E, d, 1)
             \o [i \in 1 .. Len(files) |->
                    Call(files[i], is_last(Len(files), i), E[d].level + 1)]
apply_to_each(E, d) ==
    IF is_empty(E[d])
    THEN <<Call(NoNode, TRUE, E[d].level)>>
    ELSE LET files == E[d].content_files
         IN  [i \in 1 .. Len(files) |->
                 Call(files[i], is_last(Len(files), i), E[d].level + 1)]
             \o each_directory(E, d, 1)
each_directory_NoDescent(E, d, i) ==
    LET dirs == E[d].content_directories
    IN  IF i > Len(dirs) THEN <<>>
        ELSE <<Call(dirs[i], is_last(Len(dirs), i), E[d].level + 1)>>
             \o each_directory(E, d, i + 1)
each_directory(E, d, i) ==
    LET dirs == E[d].content_directories
    IN  IF i > Len(dirs) THEN <<>>
        ELSE <<Call(dirs[i], is_last(Len(dirs), i), E[d].level + 1)>>
             \o apply_to_each(E, dirs[i])
             \o each_directory(E, d, i + 1)

\* d.apply_to_each(func) on a directory of a finished snapshot, func keeping
\* its arguments. The caller holding the snapshot is not a Data.
ApplyToEach(d) ==
    /\ status = "done"
    /\ data.status = "none"
    /\ elem[d].st = "populated"
    /\ elem[d].parent # NoNode \/ d = Root
    /\ calls' = [on |-> d, seq |-> apply_to_each(elem, d)]
    /\ UNCHANGED <<fs, root_args, config, elem, stack, status, stderr, exc,
                   prev, data, gsvars, thrvars, ssvars, libvars>>

\* ------------------------------------------------------ ldir_file.py: Data
\* str(int) of a number that is not negative.
Digits == <<"0", "1", "2", "3", "4", "5", "6", "7", "8", "9">>
RECURSIVE str_int(_)
str_int(i) ==
    IF i < 10 THEN <<Digits[i + 1]>>
    ELSE str_int(i \div 10) \o <<Digits[(i % 10) + 1]>>

\* str.rstrip()
RECURSIVE rstrip(_)
rstrip(s) ==
    IF s # <<>> /\ s[Len(s)] = " " THEN rstrip(SubSeq(s, 1, Len(s) - 1)) ELSE s

\* element.path: the root is called "/r", an entry is its directory's path,
\* "/" and its name.
RECURSIVE path(_)
path(n) ==
    IF n = Root THEN <<"/", "r">> ELSE path(Parent(n)) \o <<"/">> \o fs.name[n]

\* element.inode
inode(n) == fs.inode[n]

\* element.immutable: the directory the element is in is not writable.
immutable(E, n) == E[n].parent # NoNode /\ E[n].parent \in fs.readonly

\* config["depth"] of the Data whose walk was made with these arguments:
\* negative when the walk is recursive, else 0.
depth(a) == IF a.recursive THEN -1 ELSE 0

\* DirectoryElement.__iter__: the elements apply_to_each hands to func, in
\* that order, NoNode for None.
iter_elements(E, d) ==
    LET seq == apply_to_each(E, d)
    IN  [i \in 1 .. Len(seq) |-> seq[i].element]

MarkerGroup == <<"m", "a", "r", "k", "e", "r">>
RootGroup == <<"r", "o", "o", "t">>

\* Field.__init__: the text and the group of its GroupedString.
FieldText(index, val, level) ==
    IF index = 0 THEN val \o <<":">>
    ELSE IF index = 1 THEN Spaces(2 * level) \o val
    ELSE IF index = 2 THEN <<"|", " ">> \o val
    ELSE <<";", " ">> \o val
FieldGroup(index, grp) ==
    IF index = 0 THEN MarkerGroup ELSE str_int(index) \o grp
\* Field(index, value, level, group), its GroupedString being object x.
Field(x, index, val, level, grp) ==
    [index |-> index, value |-> val, level |-> level, group |-> grp, text |-> x]

\* Entry.create_from_element: the group of the name field.
NameGroup_ParentAlways(E, a, n) ==
    IF E[n].parent # NoNode THEN path(E[n].parent) ELSE RootGroup
NameGroup(E, a, n) ==
    IF E[n].st # "file" /\ depth(a) # 0
    THEN IF is_empty(E[n]) THEN path(E[n].parent) ELSE path(n)
    ELSE IF E[n].parent # NoNode THEN path(E[n].parent) ELSE RootGroup

\* Entry.create_from_element: the marker and the formatted name.
Marker(E, n) == IF immutable(E, n) THEN <<"#">> ELSE str_int(inode(n))
FrmtName(E, n) ==
    IF E[n].st # "file"
    THEN <<"[", "'">> \o fs.name[n] \o <<"'", "]">>
    ELSE <<"'">> \o fs.name[n] \o <<"'">>

\* Entry.create_from_element(element, **config): the Entry.
create_from_element(E, a, n) ==
    [element |-> n, is_dir |-> E[n].st # "file", group |-> NameGroup(E, a, n),
     fields |-> <<Field(MarkerId(n), 0, Marker(E, n), 0, MarkerGroup),
                  Field(NameId(n), 1, FrmtName(E, n), E[n].level,
                        NameGroup(E, a, n))>>]

\* The same, on the class: both GroupedString objects are made.
create_fields(R, E, a, n) ==
    LET R1 == gs_init(R, MarkerId(n), FieldText(0, Marker(E, n), 0),
                      FieldGroup(0, MarkerGroup))
    IN  gs_init(R1, NameId(n), FieldText(1, FrmtName(E, n), E[n].level),
                FieldGroup(1, NameGroup(E, a, n)))

\* An Entry no longer referenced: its fields' GroupedString objects go.
release_entry(R, entry) ==
    gs_del(gs_del(R, entry.fields[1].text), entry.fields[2].text)

\* self.__entries[key] = entry on a dict kept as the sequence of its items:
\* a new key goes last, a key already there keeps its place.
SetItem(items, key, entry) ==
    IF \E i \in 1 .. Len(items) : items[i].key = key
    THEN [i \in 1 .. Len(items) |->
             IF items[i].key = key THEN [key |-> key, entry |-> entry]
             ELSE items[i]]
    ELSE Append(items, [key |-> key, entry |-> entry])

\* One turn of the loop of Data.__init__, on element n.
DataAdd(D, E, a, n) ==
    IF n = NoNode THEN D
    ELSE LET key == inode(n)
             old == {i \in 1 .. Len(D.entries) : D.entries[i].key = key}
             R1 == create_fields(D.reg, E, a, n)
             R2 == IF old = {} THEN R1
                   ELSE release_entry(R1, D.entries[MinOf(old)].entry)
         IN  [D EXCEPT !.entries = SetItem(@, key, create_from_element(E, a, n)),
                       !.reg = R2]

\* The loop of Data.__init__ from the i-th element on.
RECURSIVE DataLoop(_, _, _, _, _)
DataLoop(D, E, a, seq, i) ==
    IF i > Len(seq) THEN D
    ELSE DataLoop(DataAdd(D, E, a, seq[i]), E, a, seq, i + 1)

\* The loop of Data.__init__ on the elements E with the arguments a, the
\* class being as D0 has it.
Data_loop(D0, E, a) ==
    [DataLoop(D0, E, a, iter_elements(E, Root), 1) EXCEPT !.status = "built"]

\* Data.__init__ once the walk is made, in a process with no other Data.
Data_init(E, a) == Data_loop(NoData, E, a)

\* Entry.__str__ from the i-th field on.
RECURSIVE Entry_str(_, _, _)
Entry_str(R, entry, i) ==
    IF i > Len(entry.fields) THEN <<>>
    ELSE LET field == entry.fields[i]
             width == DictGet(R.max_length, R.group[field.text], Sentinel)
         IN  (IF field.index = 0 THEN Rjust(R.text[field.text], width)
              ELSE Ljust(R.text[field.text], width))
             \o <<" ">> \o Entry_str(R, entry, i + 1)

\* Data.__str__ from the i-th entry on, last_e and last_l as the loop has them.
RECURSIVE Data_str(_, _, _, _)
Data_str_NoLevelTest(D, i, last_e, last_l) ==
    IF i > Len(D.entries) THEN <<>>
    ELSE LET entry == D.entries[i].entry
             sep == IF entry.is_dir /\ last_e THEN <<"\n">> ELSE <<>>
         IN  sep \o rstrip(Entry_str(D.reg, entry, 1)) \o <<"\n">>
             \o Data_str(D, i + 1, ~entry.is_dir, entry.fields[2].level)
Data_str(D, i, last_e, last_l) ==
    IF i > Len(D.entries) THEN <<>>
    ELSE LET entry == D.entries[i].entry
             sep == IF entry.is_dir /\ (last_e \/ last_l # entry.fields[2].level)
                    THEN <<"\n">> ELSE <<>>
         IN  sep \o rstrip(Entry_str(D.reg, entry, 1)) \o <<"\n">>
             \o Data_str(D, i + 1, ~entry.is_dir, entry.fields[2].level)

\* Data(path, **config), after its RootDirectoryElement is made: the
\* snapshot is the Data's own, nothing else has read it.
DataInit ==
    /\ status = "done"
    /\ data.status = "none"
    /\ calls = NoCalls
    /\ data' = Data_loop(data, elem, root_args)
    /\ UNCHANGED <<fs, root_args, config, elem, stack, status, stderr, exc,
                   prev, calls, gsvars, thrvars, ssvars, libvars>>

\* str(data)
DataStr ==
    /\ data.status = "built"
    /\ data' = [data EXCEPT !.rendered = TRUE, !.out = Data_str(data, 1, TRUE, -1)]
    /\ UNCHANGED <<fs, root_args, config, elem, stack, status, stderr, exc,
                   prev, calls, gsvars, thrvars, ssvars, libvars>>

\* The objects with these ids are freed: nothing of them is left.
Forget(R, ids) ==
    [R EXCEPT !.text = [x \in FieldIds |-> IF x \in ids THEN <<>> ELSE @[x]],
              !.group = [x \in FieldIds |-> IF x \in ids THEN <<>> ELSE @[x]]]

\* The GroupedString objects of the fields of these entries.
IdsOf(entries) ==
    UNION {{entries[i].entry.fields[j].text :
               j \in 1 .. Len(entries[i].entry.fields)} :
           i \in 1 .. Len(entries)}

\* A Data no longer referenced: its entries go, in the order of the dict.
RECURSIVE release_entries(_, _, _)
release_entries(R, entries, i) ==
    IF i > Len(entries) THEN Forget(R, IdsOf(entries))
    ELSE release_entries(release_entry(R, entries[i].entry), entries, i + 1)

\* The trees a second Data is made of: the same tree, or the same without
\* the entries whose name starts with ".".
AgainChanges == {"same", "stripped"}

\* A second Data(path, **config) in the same process, up to the call of
\* _load_content, the first Data rendered; the first is still referenced
\* (keep) or was freed before.
DataAgain(change, keep) ==
    /\ status = "done"
    /\ prev.status = "none"
    /\ data.rendered
    /\ change = "same" \/ (keep /\ Changed(fs, change) # fs)
    /\ prev' = [status |-> status, change |-> change, err |-> fs.err,
                elem |-> elem, stderr |-> stderr, exc |-> exc,
                out |-> data.out, kept |-> keep]
    /\ fs' = Changed(fs, change)
    /\ config' = set_config(NewConfig, root_args.recursive,
                            root_args.subdirectories, root_args.hidden)
    /\ RootCall(fs')
    /\ stderr' = <<>>
    /\ exc' = NoNode
    /\ calls' = NoCalls
    /\ data' = IF keep
               THEN [NoData EXCEPT !.reg = data.reg, !.others = data.entries]
               ELSE [NoData EXCEPT
                       !.reg = release_entries(data.reg, data.entries, 1)]
    /\ UNCHANGED <<root_args, gsvars, thrvars, ssvars, libvars>>

\* The first Data is freed while the second one exists.
DataRelease ==
    /\ data.status = "built"
    /\ data.others # <<>>
    /\ data' = [data EXCEPT !.reg = release_entries(@, data.others, 1),
                            !.others = <<>>]
    /\ UNCHANGED <<fs, root_args, config, elem, stack, status, stderr, exc,
                   prev, calls, gsvars, thrvars, ssvars, libvars>>

\* The group strings Field(index, value, level, group) is called with.
GroupStrings == {<<>>, <<"x">>, <<"2">>, <<"2", "x">>}

\* Field(index, "v", 0, group): one more Field and its GroupedString.
NewField(index, grp) ==
    /\ Len(fields.made) < MaxFields
    /\ LET x == Len(fields.made) + 1
       IN  fields' =
               [made |-> Append(fields.made, Field(x, index, <<"v">>, 0, grp)),
                reg |-> gs_init(fields.reg, x, FieldText(index, <<"v">>, 0),
                                FieldGroup(index, grp))]
    /\ UNCHANGED <<gsvars, thrvars, ssvars, walkvars, sorting, cfg, susp, strings, assigned>>

NextField ==
    \E index \in 0 .. MaxIndex, grp \in GroupStrings : NewField(index, grp)

SpecField == Init /\ [][NextField]_vars

\* ------------------------------------------------------------------ sort.py
\* ord(c) of the characters the names are made of, "\0" included.
Ord(c) ==
    CASE c = "\\0" -> 0 [] c = "A" -> 65 [] c = "B" -> 66 [] c = "_" -> 95
      [] c = "a" -> 97 [] c = "b" -> 98 [] c = "t" -> 116
\* str.lower of one character.
lower(c) == CASE c = "A" -> "a" [] c = "B" -> "b" [] OTHER -> c

\* s < t for two str, and for two sequences of numbers.
RECURSIVE SeqLess(_, _)
SeqLess(s, t) ==
    IF t = <<>> THEN FALSE
    ELSE IF s = <<>> THEN TRUE
    ELSE IF s[1] # t[1] THEN s[1] < t[1]
    ELSE SeqLess(Tail(s), Tail(t))
Ords(s) == [i \in 1 .. Len(s) |-> Ord(s[i])]

\* a < b for two tuples (x, name): the first components (both bool, or both
\* str), then the names.
TupleLess(a, b) ==
    IF a[1] # b[1] THEN SeqLess(a[1], b[1]) ELSE SeqLess(a[2], b[2])

\* The strategies the policy names.
Strategies == {"none", "name", "iname", "type", "mime"}

\* sort_method(method): globals()[f"sort_{method}_method"]; sort.py defines
\* sort_name_method, sort_type_method and sort_mime_method.
sort_method(method) ==
    IF method \in {"name", "type", "mime"} THEN [exc |-> "none", fn |-> method]
    ELSE [exc |-> "KeyError", fn |-> ""]

\* The elements sorted: the name, whether it is a DirectoryElement and then
\* whether it is empty, and what magic's from_file gives for its path
\* (Fails: it raises).
Fails == <<"!">>
Elements ==
    {e \in [name : {<<"a">>, <<"B">>}, is_dir : BOOLEAN, is_empty : BOOLEAN,
            mime : {<<"t">>, Fails}] : e.is_empty => e.is_dir}

\* sort_name_method(element): a FileElement has no is_empty.
sort_name_method(e) ==
    [exc |-> "none",
     key |-> <<IF e.is_dir /\ e.is_empty THEN <<1>> ELSE <<0>>, Ords(e.name)>>]
\* sort_type_method(element): no element has an attribute ext.
sort_type_method(e) ==
    [exc |-> "none", key |-> <<Ords(<<"\\0">>), Ords(e.name)>>]
\* sort_mime_method(element)
sort_mime_method(e) ==
    IF e.mime = Fails THEN [exc |-> "OSError", key |-> <<>>]
    ELSE [exc |-> "none", key |-> <<Ords(e.mime), Ords(e.name)>>]

\* The key function sort_method returned, called on e.
KeyOf(fn, e) ==
    IF fn = "name" THEN sort_name_method(e)
    ELSE IF fn = "type" THEN sort_type_method(e)
    ELSE sort_mime_method(e)

\* sorted(items, key=...): the keys are taken first, then the stable sort;
\* e goes after the elements of the sorted list q that are not greater.
RECURSIVE Insert(_, _, _)
Insert(fn, q, e) ==
    IF q = <<>> THEN <<e>>
    ELSE IF TupleLess(KeyOf(fn, e).key, KeyOf(fn, q[Len(q)]).key)
    THEN Append(Insert(fn, SubSeq(q, 1, Len(q) - 1), e), q[Len(q)])
    ELSE Append(q, e)
RECURSIVE sorted(_, _)
sorted(fn, items) ==
    IF items = <<>> THEN <<>>
    ELSE Insert(fn, sorted(fn, SubSeq(items, 1, Len(items) - 1)), items[Len(items)])

\* The lists of elements os.scandir may yield.
ItemLists ==
    UNION {[1 .. k -> Elements] : k \in 0 .. MaxItems}

\* _load_content appends the elements in the order os.scandir yields them
\* and does not sort its lists.
load_order(items) == items

\* One directory is listed, its lists are as _load_content leaves them, and
\* the elements are sorted with the key sort_method(method) returns.
Sort(method, items) ==
    /\ sorting = NoSort
    /\ LET sm == sort_method(method)
           failed == \E i \in 1 .. Len(items) : KeyOf(sm.fn, items[i]).exc # "none"
       IN  sorting' =
              IF sm.exc # "none"
              THEN [method |-> method, listed |-> load_order(items), exc |-> sm.exc,
                    result |-> <<>>]
              ELSE IF failed
              THEN [method |-> method, listed |-> load_order(items), exc |-> "OSError",
                    result |-> <<>>]
              ELSE [method |-> method, listed |-> load_order(items), exc |-> "none",
                    result |-> sorted(sm.fn, items)]
    /\ UNCHANGED <<gsvars, thrvars, ssvars, walkvars, fields, cfg, susp, strings, assigned>>

NextSort ==
    \E method \in Strategies, items \in ItemLists : Sort(method, items)

SpecSort == Init /\ [][NextSort]_vars

\* ------------------------ GroupedString.__lock requested again by its holder
\* The with-blocks of the group setter, of unify_lengths_for_groups and of
\* __del__, step by step: a block that calls update_max_length_for_group
\* requests the lock a second time while it holds it, and a finalizer runs in
\* whatever thread drops the last reference, inside a with-block too.

\* The positions at which a thread has requested the lock and waits for it,
\* and the position it is at once the lock is granted.
Requests ==
    {"init_lock", "update_lock", "group_lock", "group_old_lock",
     "group_new_lock", "unify_lock", "fin_lock", "fin_update_lock"}
Granted(p) ==
    CASE p = "group_lock" -> "group_detach"
      [] p = "group_old_lock" -> "group_update"
      [] p = "group_new_lock" -> "group_update"
      [] p = "unify_lock" -> "unify"
      [] p = "fin_lock" -> "fin_del"
      [] p = "fin_update_lock" -> "fin_update"

\* The positions inside a with-block, where the lock is held.
Body ==
    {"init_register", "update", "group_detach", "group_update",
     "group_attach", "unify"}

\* type(self).__instances[g].discard(self)
discard(R, x, g) == [R EXCEPT !.instances[g] = @ \ {x}]

\* A call of thread t ends: its with-blocks are left, with exception e or
\* without one.
TReturn(t, e) ==
    /\ lock' = 0
    /\ pc' = [pc EXCEPT ![t] = "idle"]
    /\ cur' = [cur EXCEPT ![t] = NoArgs]
    /\ thr_exc' = [thr_exc EXCEPT ![t] = e]

\* x.group = g is called on an object no other call is using; lines 206-208:
\* with the group x has, nothing is done and no lock is requested.
TGroupBegin(t, x, g) ==
    /\ pc[t] = "idle"
    /\ x \in alive \ InUse
    /\ group[x] # g
    /\ cur' = [cur EXCEPT ![t] = [x |-> x, t |-> <<>>, g |-> g]]
    /\ pc' = [pc EXCEPT ![t] = "group_lock"]
    /\ UNCHANGED <<gsvars, lock, thr_exc, ssvars, walkvars, libvars>>

\* GroupedString.unify_lengths_for_groups(*args)
TUnifyBegin(t, args) ==
    /\ pc[t] = "idle"
    /\ cur' = [cur EXCEPT ![t] = [x |-> 0, t |-> args, g |-> NoGroup]]
    /\ pc' = [pc EXCEPT ![t] = "unify_lock"]
    /\ UNCHANGED <<gsvars, lock, thr_exc, ssvars, walkvars, libvars>>

\* with ...__lock: of lines 210, 271 and 276, and of line 234 when the group
\* setter or __del__ calls update_max_length_for_group inside its own block.
TAcquire(t) ==
    /\ pc[t] \in Requests \ {"init_lock", "update_lock"}
    /\ CanAcquire(t)
    /\ lock' = t
    /\ pc' = [pc EXCEPT ![t] = Granted(pc[t])]
    /\ UNCHANGED <<gsvars, cur, thr_exc, ssvars, walkvars, libvars>>

\* group setter, lines 212-220: x leaves its old group; a group left empty is
\* deleted, for any other update_max_length_for_group(old_group) is called.
TGroupDetach(t) ==
    /\ pc[t] = "group_detach"
    /\ LET x == cur[t].x
           old_group == group[x]
       IN  IF old_group \notin DOMAIN instances
           THEN TReturn(t, "KeyError") /\ UNCHANGED gsvars
           ELSE LET R1 == discard(Reg, x, old_group)
                IN  IF R1.instances[old_group] # {}
                    THEN /\ Install(R1)
                         /\ pc' = [pc EXCEPT ![t] = "group_old_lock"]
                         /\ UNCHANGED <<alive, last, cur, lock, thr_exc>>
                    ELSE IF old_group \in DOMAIN max_length
                    THEN /\ Install([R1 EXCEPT !.instances = DictDel(@, old_group),
                                               !.max_length = DictDel(@, old_group)])
                         /\ pc' = [pc EXCEPT ![t] = "group_attach"]
                         /\ UNCHANGED <<alive, last, cur, lock, thr_exc>>
                    ELSE /\ Install([R1 EXCEPT !.instances = DictDel(@, old_group)])
                         /\ TReturn(t, "KeyError")
                         /\ UNCHANGED <<alive, last>>
    /\ UNCHANGED <<ssvars, walkvars, libvars>>

\* update_max_length_for_group, lines 235-241, called by the group setter for
\* the old group (line 220) and for the new one (line 232); the inner block is
\* left, and after line 232 the outer one too.
TGroupUpdate(t) ==
    /\ pc[t] = "group_update"
    /\ LET x == cur[t].x
           R == update_max_length_for_group(Reg, group[x])
       IN  /\ Install(R)
           /\ IF R.exc = "none" /\ group[x] # cur[t].g
              THEN /\ pc' = [pc EXCEPT ![t] = "group_attach"]
                   /\ UNCHANGED <<cur, lock, thr_exc>>
              ELSE TReturn(t, R.exc)
    /\ UNCHANGED <<alive, last, ssvars, walkvars, libvars>>

\* group setter, lines 226-229: x joins the new group.
TGroupAttach(t) ==
    /\ pc[t] = "group_attach"
    /\ LET x == cur[t].x
           new_group == cur[t].g
       IN  Install([Reg EXCEPT
                       !.group[x] = new_group,
                       !.instances =
                           DictSet(@, new_group, DictGet(@, new_group, {}) \cup {x})])
    /\ pc' = [pc EXCEPT ![t] = "group_new_lock"]
    /\ UNCHANGED <<alive, last, cur, lock, thr_exc, ssvars, walkvars, libvars>>

\* unify_lengths_for_groups, lines 272-273, and the lock is released
TUnify(t) ==
    /\ pc[t] = "unify"
    /\ LET R == unify_lengths_for_groups(Reg, {cur[t].t[i] : i \in DOMAIN cur[t].t})
       IN  /\ Install(R)
           /\ TReturn(t, R.exc)
    /\ UNCHANGED <<alive, last, ssvars, walkvars, libvars>>

\* Thread t drops the last reference to y, an object no call is using, and
\* runs y.__del__(): between two calls, or inside a with-block of the call it
\* is making, which waits until __del__ has returned.
TFinalize(t, y) ==
    /\ susp[t] = NoFrame
    /\ pc[t] = "idle" \/ (pc[t] \in Body /\ lock = t)
    /\ y \in alive \ InUse
    /\ susp' = [susp EXCEPT ![t] = [pc |-> pc[t], cur |-> cur[t]]]
    /\ cur' = [cur EXCEPT ![t] = [x |-> y, t |-> <<>>, g |-> group[y]]]
    /\ pc' = [pc EXCEPT ![t] = "fin_lock"]
    /\ UNCHANGED <<gsvars, lock, thr_exc, ssvars, walkvars, fields, sorting, cfg, strings, assigned>>

\* __del__ returns, with exception e (that Python reports and drops) or
\* without: the object is gone, the block of line 276 is left and the thread
\* is back in the call it was making.
TFinReturn(t, R, e) ==
    /\ instances' = R.instances
    /\ max_length' = R.max_length
    /\ text' = [R.text EXCEPT ![cur[t].x] = <<>>]
    /\ group' = [R.group EXCEPT ![cur[t].x] = NoGroup]
    /\ alive' = alive \ {cur[t].x}
    /\ thr_exc' = [thr_exc EXCEPT ![t] = e]
    /\ lock' = IF susp[t].pc = "idle" THEN 0 ELSE t
    /\ pc' = [pc EXCEPT ![t] = susp[t].pc]
    /\ cur' = [cur EXCEPT ![t] = susp[t].cur]
    /\ susp' = [susp EXCEPT ![t] = NoFrame]

\* __del__, lines 277-281: the object leaves its group; a group left empty is
\* deleted, for any other update_max_length_for_group is called (line 283).
TFinDel(t) ==
    /\ pc[t] = "fin_del"
    /\ LET x == cur[t].x
           g == group[x]
       IN  IF g \in DOMAIN instances /\ discard(Reg, x, g).instances[g] # {}
           THEN /\ Install(discard(Reg, x, g))
                /\ pc' = [pc EXCEPT ![t] = "fin_update_lock"]
                /\ UNCHANGED <<alive, cur, lock, thr_exc, susp>>
           ELSE LET R == gs_del(Reg, x) IN TFinReturn(t, R, R.exc)
    /\ UNCHANGED <<last, ssvars, walkvars, fields, sorting, cfg, strings, assigned>>

\* update_max_length_for_group, lines 235-241, called by __del__ (line 283)
TFinUpdate(t) ==
    /\ pc[t] = "fin_update"
    /\ LET R == update_max_length_for_group(Reg, group[cur[t].x])
       IN  TFinReturn(t, R, R.exc)
    /\ UNCHANGED <<last, ssvars, walkvars, fields, sorting, cfg, strings, assigned>>

\* What a thread does once it has the lock, or needs none.
TBody(t) ==
    \/ TInitRegister(t)
    \/ TTextWrite(t)
    \/ TUpdate(t)
    \/ TGroupDetach(t)
    \/ TGroupUpdate(t)
    \/ TGroupAttach(t)
    \/ TUnify(t)
    \/ TFinDel(t)
    \/ TFinUpdate(t)

\* A thread is given the lock it has requested.
TLock(t) ==
    \/ TInitLock(t)
    \/ TUpdateLock(t)
    \/ TAcquire(t)

\* The texts and the groups the calls are made with: the lock is requested
\* and released in the same way for every text and every tuple of groups.
LockTexts == {txt \in Texts : Len(txt) = MaxLen}
LockArgs == {<<"a", "b">>}

NextGSLock ==
    \/ \E t \in Thr, x \in Inst, txt \in LockTexts, g \in Groups : TInitBegin(t, x, txt, g)
    \/ \E t \in Thr, x \in Inst, txt \in LockTexts : TTextBegin(t, x, txt)
    \/ \E t \in Thr, x \in Inst, g \in Groups : TGroupBegin(t, x, g)
    \/ \E t \in Thr, args \in LockArgs : TUnifyBegin(t, args)
    \/ \E t \in Thr, y \in Inst : TFinalize(t, y)
    \/ \E t \in Thr : TLock(t)
    \/ \E t \in Thr : TBody(t)

SpecGSLock == Init /\ [][NextGSLock]_vars

\* The threads are scheduled: a thread that can go on does, and a thread that
\* waits for a lock that is free again and again is given it. No thread has
\* to begin a call or to drop a reference.
SpecGSLockFair ==
    SpecGSLock /\ \A t \in Thr : WF_vars(TBody(t)) /\ SF_vars(TLock(t))

\* ------------------------------------------------- Config.set_config calls
\* An Optional[bool] argument: None, or a one-element tuple with the value.
Optionals == {None, <<TRUE>>, <<FALSE>>}

\* all(x is not None for x in (recursive, subdirectories, hidden))
AllGiven(a) == \A i \in 1 .. 3 : a[i] # None

\* c.set_config(recursive, subdirectories, hidden), a the three arguments:
\* without a value for each of them nothing is set.
set_config_call_Reapplied(c, a) ==
    IF AllGiven(a) THEN set_config(NewConfig, a[1][1], a[2][1], a[3][1]) ELSE c
set_config_call(c, a) ==
    IF AllGiven(a) THEN set_config(c, a[1][1], a[2][1], a[3][1]) ELSE c

\* One more set_config call on the same Config.
SetConfig(a) ==
    /\ cfg.count < MaxCalls
    /\ cfg' = [obj |-> set_config_call(cfg.obj, a),
               count |-> cfg.count + 1,
               last |-> a,
               before |-> cfg.obj,
               frozen |-> cfg.frozen \/ (cfg.count >= 1 /\ AllGiven(cfg.last))]
    /\ UNCHANGED <<gsvars, thrvars, ssvars, walkvars, fields, sorting, susp, strings, assigned>>

NextConfig ==
    \E a \in [1 .. 3 -> Optionals] : SetConfig(a)

SpecConfig == Init /\ [][NextConfig]_vars

\* Data(path, **config) made and rendered, once or twice in a process.
NextRender ==
    \/ \E recursive \in BOOLEAN, subdirectories \in BOOLEAN, hidden \in BOOLEAN :
            BuildRoot(recursive, subdirectories, hidden)
    \/ ScandirOpens
    \/ ScandirCaught
    \/ ScandirRaises
    \/ IterSkip
    \/ IterFile
    \/ IterDirectory
    \/ Return
    \/ DataInit
    \/ DataStr
    \/ \E change \in AgainChanges, keep \in BOOLEAN : DataAgain(change, keep)
    \/ DataRelease

SpecRender == Init /\ [][NextRender]_vars

NextWalk ==
    \/ \E recursive \in BOOLEAN, subdirectories \in BOOLEAN, hidden \in BOOLEAN :
            BuildRoot(recursive, subdirectories, hidden)
    \/ ScandirOpens
    \/ ScandirCaught
    \/ ScandirRaises
    \/ IterSkip
    \/ IterFile
    \/ IterDirectory
    \/ Return
    \/ \E change \in Changes : Rebuild(change)
    \/ \E d \in Nodes : ApplyToEach(d)
    \/ \E d \in Nodes : Reload(d)
    \/ LoadSkipped
    \/ DataInit
    \/ DataStr

SpecWalk == Init /\ [][NextWalk]_vars

\* element.parent = p, made by the holder of a finished snapshot for an
\* element of one of its lists and a directory of the snapshot.
AssignParent(n, p) ==
    /\ status = "done"
    /\ assigned = <<>>
    /\ elem[n].parent # NoNode
    /\ elem[p].st = "populated"
    /\ elem' = [elem EXCEPT ![n] = set_parent(@, p)]
    /\ assigned' = <<n, p>>
    /\ UNCHANGED <<fs, root_args, config, stack, status, stderr, exc, prev,
                   readvars, gsvars, thrvars, ssvars, fields, sorting, cfg, susp,
                   strings>>

\* One RootDirectoryElement(...) call, and one parent assigned afterwards.
NextParent ==
    \/ \E recursive \in BOOLEAN, subdirectories \in BOOLEAN, hidden \in BOOLEAN :
            BuildRoot(recursive, subdirectories, hidden)
    \/ ScandirOpens
    \/ ScandirCaught
    \/ ScandirRaises
    \/ IterSkip
    \/ IterFile
    \/ IterDirectory
    \/ Return
    \/ \E n \in Nodes, p \in Nodes : AssignParent(n, p)

SpecParent == Init /\ [][NextParent]_vars

\* The element of n is part of the snapshot E: it was appended to the list
\* of a directory that is part of it.
RECURSIVE InSnapshot(_, _)
InSnapshot(E, n) ==
    \/ n = Root /\ E[n].st # "absent"
    \/ /\ n # Root
       /\ E[n].parent = Parent(n)
       /\ InSnapshot(E, Parent(n))

InList(q, n) == \E i \in 1 .. Len(q) : q[i] = n

RecordedEmpty(E, n) ==
    /\ E[n].st = "populated"
    /\ E[n].content_files = <<>>
    /\ E[n].content_directories = <<>>

\* The hidden test drops the directory n.
Excluded(n) == ~config.hidden /\ startswith(fs.name[n], ".")

\* Both calls have returned or raised, and in the first the listing of the
\* subdirectory f was refused with the error kind.
FailedAt(f, kind) ==
    /\ status \in {"done", "raised"}
    /\ prev.change = "listable"
    /\ f # Root
    /\ prev.err[f] = kind
    /\ prev.elem[f].st # "absent"

\* Every directory of the first snapshot other than f has the lists it has
\* in the second.
OthersAsWithoutFailure(f) ==
    \A d \in Nodes \ {f} :
        (InSnapshot(prev.elem, d) /\ prev.elem[d].st = "populated") =>
            /\ InSnapshot(elem, d)
            /\ elem[d].content_files = prev.elem[d].content_files
            /\ elem[d].content_directories = prev.elem[d].content_directories

\* C9 as stated: after PermissionError on the listing of a subdirectory the
\* call returns, the subdirectory is in its parent's list with two empty
\* lists, and every other directory is recorded as without the failure.
C9_DeniedSubdirectoryListedEmpty ==
    \A f \in 1 .. NNodes :
        FailedAt(f, "perm") =>
            /\ prev.status = "done"
            /\ InList(prev.elem[Parent(f)].content_directories, f)
            /\ RecordedEmpty(prev.elem, f)
            /\ OthersAsWithoutFailure(f)

\* C9: after PermissionError on the listing of a subdirectory the call
\* returns and every other directory is recorded as without the failure;
\* the subdirectory has two empty lists, and it is in its parent's list
\* exactly when the hidden test keeps it.
C9_DeniedSubdirectoryRecovered ==
    \A f \in 1 .. NNodes :
        FailedAt(f, "perm") =>
            /\ prev.status = "done"
            /\ RecordedEmpty(prev.elem, f)
            /\ InList(prev.elem[Parent(f)].content_directories, f) <=> ~Excluded(f)
            /\ OthersAsWithoutFailure(f)

C9_Witness ==
    \E f \in 1 .. NNodes :
        /\ FailedAt(f, "perm")
        /\ status = "done"
        /\ InSnapshot(prev.elem, f)
        /\ RecordedEmpty(prev.elem, f)
        /\ elem[f].content_files # <<>>
        /\ \E d \in Nodes \ {f} :
               InSnapshot(prev.elem, d) /\ prev.elem[d].content_directories # <<>>

\* C10: when the listing of a subdirectory fails with an OSError that is not
\* PermissionError, the call does not raise, and once it has returned the
\* subdirectory is recorded with two empty lists and every directory of the
\* snapshot is populated.
C10_OtherErrorRecovered ==
    \A f \in 1 .. NNodes :
        (fs.err[f] = "os" /\ elem[f].st \notin {"absent", "pending"}) =>
            /\ status # "raised"
            /\ exc = NoNode
            /\ status = "done" =>
                   /\ RecordedEmpty(elem, f)
                   /\ \A d \in Nodes :
                          InSnapshot(elem, d) /\ fs.isdir[d] =>
                              elem[d].st = "populated"

\* C11: when the root path names no directory, the call never returns a
\* snapshot, it has raised once no constructor is running, and no directory
\* is listed: no element ever gets its lists.
C11_InvalidRootFailsBeforeListing ==
    (fs.root # "dir" /\ status # "none") =>
        /\ status # "done"
        /\ stack = <<>> => status = "raised"
        /\ \A n \in Nodes : elem[n].st \in {"absent", "pending"}

\* The entries of d on disk that the hidden flag lets through, files or
\* directories, in the order os.scandir yields them.
Dotted(n) == startswith(fs.name[n], ".")
Allowed(n) == root_args.hidden \/ ~Dotted(n)
AllowedEntries(d, dirs) ==
    SelectSeq(scandir(d), LAMBDA n : Allowed(n) /\ (fs.isdir[n] <=> dirs))

\* The directories of the snapshot.
SnapshotDirs == {d \in Nodes : InSnapshot(elem, d) /\ fs.isdir[d]}

\* C12: with hidden false, no element in a file list or a subdirectory list
\* of a directory of the snapshot has a name that starts with ".", whatever
\* recursive and subdirectories are.
C12_NoDottedNameInSnapshot ==
    ~root_args.hidden =>
        \A d \in SnapshotDirs, n \in Nodes :
            (InList(elem[d].content_files, n)
                \/ InList(elem[d].content_directories, n)) => ~Dotted(n)

C12_Witness ==
    /\ status = "done"
    /\ ~root_args.hidden
    /\ \E h \in 1 .. NNodes :
           /\ Dotted(h) /\ fs.isdir[h]
           /\ elem[h].content_files # <<>>
    /\ \E f \in 1 .. NNodes : Dotted(f) /\ ~fs.isdir[f]
    /\ elem[Root].content_files # <<>>

\* C14: a walk that is not recursive, with subdirectories on, whose root
\* lists: the root's two lists are its files and its directories that the
\* hidden flag lets through, each of these directories has two empty lists,
\* and no element is at a level above 1.
C14_DepthZeroStopsBelowRoot ==
    (/\ status = "done"
     /\ ~root_args.recursive /\ root_args.subdirectories
     /\ fs.err[Root] = "ok") =>
        /\ elem[Root].content_files = AllowedEntries(Root, FALSE)
        /\ elem[Root].content_directories = AllowedEntries(Root, TRUE)
        /\ \A d \in Nodes :
               InList(elem[Root].content_directories, d) => RecordedEmpty(elem, d)
        /\ \A n \in Nodes : elem[n].level <= 1

C14_Witness ==
    /\ status = "done"
    /\ ~root_args.recursive /\ root_args.subdirectories
    /\ elem[Root].content_files # <<>>
    /\ \E d \in Nodes :
           /\ InList(elem[Root].content_directories, d)
           /\ scandir(d) # <<>>

\* C15 as stated: when subdirectories is false in the arguments, no
\* directory of the snapshot has a subdirectory, whatever recursive is.
C15_NoSubdirectoriesWhenOff ==
    ~root_args.subdirectories =>
        \A d \in SnapshotDirs : elem[d].content_directories = <<>>

\* C15: when subdirectories and recursive are both false in the arguments,
\* no directory of the snapshot has a subdirectory; when recursive is true
\* the walk goes on as with subdirectories true.
C15_NoSubdirectoriesWhenOffAndFlat ==
    /\ (~root_args.subdirectories /\ ~root_args.recursive) =>
           \A d \in SnapshotDirs : elem[d].content_directories = <<>>
    /\ (status # "none" /\ root_args.recursive) => config.subdirectories
    /\ (status = "done" /\ root_args.recursive /\ fs.err[Root] = "ok") =>
           elem[Root].content_directories = AllowedEntries(Root, TRUE)

C15_Witness ==
    /\ status = "done"
    /\ ~root_args.subdirectories /\ ~root_args.recursive
    /\ AllowedEntries(Root, TRUE) # <<>>
    /\ elem[Root].content_files # <<>>

\* C18: the root element is at level 0, and every element with a parent is
\* one level below it.
C18_LevelIsParentLevelPlusOne ==
    /\ elem[Root].st # "absent" => elem[Root].level = 0
    /\ \A n \in Nodes :
           elem[n].parent # NoNode =>
               elem[n].level = elem[elem[n].parent].level + 1

C18_Witness ==
    /\ status = "done"
    /\ \E n \in Nodes :
           /\ InSnapshot(elem, n)
           /\ elem[n].level = 2
           /\ elem[n].parent # NoNode
           /\ elem[elem[n].parent].parent = Root

\* C19: in every directory that has been listed, each entry the hidden flag
\* lets through is at most once in the two lists together, and never more
\* than the walk met; a directory is only in the subdirectory list and any
\* other entry only in the file list; once the directory is populated in a
\* recursive walk every such entry os.scandir yields is there exactly once.
C19_ListsPartitionChildren ==
    \A d \in Nodes :
        LET files == elem[d].content_files
            dirs == elem[d].content_directories
            both == files \o dirs
            entries == scandir(d)
        IN  /\ \A i, j \in 1 .. Len(both) : i # j => both[i] # both[j]
            /\ \A i \in 1 .. Len(files) :
                  ~fs.isdir[files[i]] /\ Parent(files[i]) = d
            /\ \A i \in 1 .. Len(dirs) :
                  fs.isdir[dirs[i]] /\ Parent(dirs[i]) = d
            /\ (elem[d].st = "populated" /\ fs.err[d] = "ok"
                /\ root_args.recursive) =>
                   \A i \in 1 .. Len(entries) :
                       Allowed(entries[i]) => InList(both, entries[i])

C19_Witness ==
    /\ status = "done"
    /\ \E d \in Nodes :
           /\ Len(elem[d].content_files) = 1
           /\ Len(elem[d].content_directories) = 1
    /\ Len(elem[Root].content_files) + Len(elem[Root].content_directories) = 2

\* _load_content of the directory d is running.
Constructing(stk, d) == \E i \in 1 .. Len(stk) : stk[i].node = d

\* Pending -> Listing -> Populated, and the element of a file.
StSteps ==
    {<<"absent", "pending">>, <<"absent", "file">>, <<"pending", "listing">>,
     <<"listing", "populated">>}

\* C17: over the objects of one call (a new call makes new ones): the lists
\* of a directory change only while its constructor runs and before it is
\* populated; a populated directory never changes again, a repeated
\* _load_content included; a directory in a subdirectory list is populated,
\* and so is every directory of the snapshot once the call has returned.
C17_ListsWrittenOnlyInConstruction ==
    [][prev' = prev =>
        \A d \in Nodes :
            /\ (\/ elem'[d].content_files # elem[d].content_files
                \/ elem'[d].content_directories # elem[d].content_directories) =>
                   /\ Constructing(stack, d)
                   /\ elem[d].st = "listing"
            /\ elem[d].st = "populated" => elem'[d] = elem[d]
            /\ elem'[d].st # elem[d].st => <<elem[d].st, elem'[d].st>> \in StSteps
            /\ \A n \in Nodes :
                   InList(elem'[d].content_directories, n) =>
                       elem'[n].st = "populated"
            /\ (status' = "done" /\ elem'[d].parent # NoNode /\ fs'.isdir[d]) =>
                   elem'[d].st = "populated"
            /\ status' = "done" => elem'[Root].st = "populated"]_vars

C17_Witness ==
    /\ status = "walking"
    /\ Len(stack) = 1
    /\ Top.pc = "load"
    /\ Top.node # Root
    /\ elem[Top.node].st = "populated"
    /\ elem[Top.node].content_files # <<>>
    /\ elem[Root].content_directories # <<>>

\* The list of its parent that the element n is in.
ListOf(n) ==
    IF fs.isdir[n] THEN elem[elem[n].parent].content_directories
    ELSE elem[elem[n].parent].content_files

\* C20: every call of func for an element has is_last True exactly when the
\* element is the last of the list of its parent that it is in, the file
\* list for a file and the subdirectory list for a directory.
C20_IsLastMarksEndOfEachList ==
    \A i \in 1 .. Len(calls.seq) :
        LET c == calls.seq[i]
        IN  c.element # NoNode =>
                (c.is_last <=> ListOf(c.element)[Len(ListOf(c.element))] = c.element)

C20_Witness ==
    /\ calls.on = Root
    /\ \E i, j, k \in 1 .. Len(calls.seq) :
           /\ calls.seq[i].element # NoNode
           /\ calls.seq[j].element # NoNode
           /\ calls.seq[k].element # NoNode
           /\ ~fs.isdir[calls.seq[i].element] /\ ~calls.seq[i].is_last
           /\ fs.isdir[calls.seq[j].element] /\ calls.seq[j].is_last
           /\ ~fs.isdir[calls.seq[k].element] /\ calls.seq[k].is_last
           /\ elem[calls.seq[j].element].parent = elem[calls.seq[k].element].parent

\* The non-null elements the traversal of the snapshot yields.
Yielded(E) ==
    LET seq == iter_elements(E, Root)
    IN  {seq[i] : i \in 1 .. Len(seq)} \ {NoNode}

\* The number of lines of s that are not blank.
NonBlankLines(s) ==
    Cardinality({i \in 2 .. Len(s) : s[i] = "\n" /\ s[i - 1] # "\n"})

\* C16: Data holds exactly one Entry, and its text exactly one non-blank
\* line, for every non-null element the traversal of the snapshot yields,
\* whatever the inode numbers: none is dropped or merged with another one.
C16_OneEntryPerYieldedElement ==
    (status = "done" /\ data.status = "built") =>
        /\ Len(data.entries) = Cardinality(Yielded(elem))
        /\ \A n \in Yielded(elem) :
              \E i \in 1 .. Len(data.entries) : data.entries[i].entry.element = n
        /\ data.rendered => NonBlankLines(data.out) = Cardinality(Yielded(elem))

\* The snapshot held by the root of E: the elements reached from it.
SnapshotOf(E) == [n \in Nodes |-> IF InSnapshot(E, n) THEN E[n] ELSE NoElem]

\* The column widths of the Data D: the padding length of every group.
ColumnWidths(D) == D.reg.max_length

\* Two calls with hidden false were made, the first on a tree and the second
\* on the same tree without its entries whose name starts with ".".
HiddenOnlyDifference ==
    /\ prev.change = "stripped"
    /\ ~root_args.hidden
    /\ prev.status \in {"done", "raised"}
    /\ status \in {"done", "raised"}

\* C13: with the hidden flag false, two trees that differ only by hidden
\* files or hidden subdirectories give identical snapshots and identical
\* rendered text, column widths included.
C13_HiddenEntriesLeaveNoTrace ==
    HiddenOnlyDifference =>
        /\ prev.status = status
        /\ status = "done" => SnapshotOf(prev.elem) = SnapshotOf(elem)
        /\ (status = "done" /\ data.rendered) =>
              LET before == Data_init(prev.elem, root_args)
              IN  /\ Data_str(before, 1, TRUE, -1) = data.out
                  /\ ColumnWidths(before) = ColumnWidths(data)

\* The same where no listing of the first tree raises an OSError other than
\* PermissionError.
C13_HiddenEntriesLeaveNoTraceWithoutOSError ==
    (\A n \in Nodes : prev.err[n] # "os") => C13_HiddenEntriesLeaveNoTrace

\* ------------------------------------------------------- the rendered text
\* str.split("\n") of a text that ends with "\n", the empty last piece left
\* out: line is the one begun before position i.
RECURSIVE SplitLines(_, _, _)
SplitLines(s, i, line) ==
    IF i > Len(s) THEN <<>>
    ELSE IF s[i] = "\n" THEN <<line>> \o SplitLines(s, i + 1, <<>>)
    ELSE SplitLines(s, i + 1, Append(line, s[i]))

\* The lines of the rendered text that are not blank, in order.
EntryLines(out) == SelectSeq(SplitLines(out, 1, <<>>), LAMBDA l : l # <<>>)

\* A Data is made of the snapshot and rendered.
Rendered == status = "done" /\ data.rendered

\* The marker of the element n as the spec has it: "#" when the directory n
\* is in is not writable, else the inode number.
MarkerOf(n) ==
    IF elem[n].parent \in fs.readonly THEN <<"#">> ELSE str_int(fs.inode[n])

\* The widest marker text, ":" included, of the elements of the tree.
WidestMarker == MaxOf({Len(MarkerOf(n)) + 1 : n \in Yielded(elem)})

\* C21: in a whole-tree render every entry's marker is "#" when the element
\* is immutable and its inode number otherwise, every marker field is in the
\* group "marker", and the marker of every line is right-justified to one
\* width, that of the widest marker text of the tree.
C21_MarkersRightJustifiedToWidestOfTree ==
    Rendered =>
        LET lines == EntryLines(data.out)
        IN  /\ Len(lines) = Len(data.entries)
            /\ \A i \in 1 .. Len(data.entries) :
                  LET e == data.entries[i].entry
                      m == MarkerOf(e.element)
                  IN  /\ e.fields[1].value = m
                      /\ e.fields[1].index = 0
                      /\ data.reg.group[e.fields[1].text] = MarkerGroup
                      /\ Len(lines[i]) > WidestMarker
                      /\ SubSeq(lines[i], 1, WidestMarker + 1)
                            = Rjust(m \o <<":">>, WidestMarker) \o <<" ">>

\* The same where no other Data was alive in the process.
C21_MarkersRightJustifiedWhenAlone ==
    ~prev.kept => C21_MarkersRightJustifiedToWidestOfTree

\* The path the name field of the element n is to be grouped by: its own
\* for a directory that is not empty, else that of the directory it is in.
GroupPathOf(n) ==
    IF elem[n].st # "file"
       /\ (elem[n].content_files # <<>> \/ elem[n].content_directories # <<>>)
    THEN path(n) ELSE path(Parent(n))

\* C22: the name field of every rendered element is in the group keyed by
\* the path of its parent directory for a file and for an empty directory and
\* by its own path for a directory that is not empty, whatever the depth is.
C22_NameGroupKeyedByPath ==
    (status = "done" /\ data.status = "built") =>
        \A i \in 1 .. Len(data.entries) :
            LET e == data.entries[i].entry
            IN  /\ e.fields[2].index = 1
                /\ e.fields[2].group = GroupPathOf(e.element)
                /\ data.reg.group[e.fields[2].text]
                      = <<"1">> \o GroupPathOf(e.element)

C22_Witness ==
    /\ status = "done" /\ data.status = "built"
    /\ root_args.recursive
    /\ \E i, j, k \in 1 .. Len(data.entries) :
          LET a == data.entries[i].entry
              b == data.entries[j].entry
              c == data.entries[k].entry
          IN  /\ a.is_dir /\ a.group = path(a.element)
              /\ b.is_dir /\ b.group = path(Parent(b.element))
              /\ ~c.is_dir /\ Parent(c.element) = a.element

\* The i-th entry of the Data is a directory, and its nesting level.
IsDirEntry(i) == elem[data.entries[i].entry.element].st # "file"
LevelOfEntry(i) == elem[data.entries[i].entry.element].level

\* A separator is due before the i-th entry: it is a directory, and the entry
\* emitted before it was a file or there is none, or was at another nesting
\* level.
SeparatorDue(i) ==
    /\ IsDirEntry(i)
    /\ \/ i = 1
       \/ ~IsDirEntry(i - 1)
       \/ LevelOfEntry(i - 1) # LevelOfEntry(i)

\* Which lines of the text are blank when a blank line stands before the
\* entries it is due before and nowhere else, from the i-th entry on.
RECURSIVE BlankPattern(_)
BlankPattern(i) ==
    IF i > Len(data.entries) THEN <<>>
    ELSE (IF SeparatorDue(i) THEN <<TRUE>> ELSE <<>>) \o <<FALSE>>
         \o BlankPattern(i + 1)

\* C23: in the whole-tree render a blank line stands immediately before an
\* entry exactly when the entry is a directory and the entry emitted before
\* it was a file or the directory is the first one emitted at a nesting level
\* other than that of the entry before it; none stands before a file, and
\* none between consecutive directories of one nesting level.
C23_BlankLineBeforeDirectoryBlocks ==
    Rendered =>
        LET lines == SplitLines(data.out, 1, <<>>)
        IN  [l \in 1 .. Len(lines) |-> lines[l] = <<>>] = BlankPattern(1)

C23_Witness ==
    /\ Rendered
    /\ \E i \in 2 .. Len(data.entries) : IsDirEntry(i) /\ ~IsDirEntry(i - 1)
    /\ \E i \in 2 .. Len(data.entries) :
          /\ IsDirEntry(i) /\ IsDirEntry(i - 1)
          /\ LevelOfEntry(i - 1) # LevelOfEntry(i)
    /\ \E i \in 2 .. Len(data.entries) :
          /\ IsDirEntry(i) /\ IsDirEntry(i - 1)
          /\ LevelOfEntry(i - 1) = LevelOfEntry(i)

\* C24: a Data made of the same unchanged tree with the same arguments a
\* second time in the process renders the text the first rendered, byte for
\* byte, the entries of the first being alive or freed when it renders.
C24_SecondRenderIdentical ==
    (prev.change = "same" /\ Rendered) => data.out = prev.out

C24_Witness ==
    /\ prev.change = "same" /\ prev.kept /\ Rendered
    /\ data.others = <<>>
    /\ data.out = Data_str(data, 1, TRUE, -1)
    /\ \E i, j \in 1 .. Len(data.entries) :
          Len(data.entries[i].entry.fields[1].value)
             < Len(data.entries[j].entry.fields[1].value)

\* The alignment group the i-th Field made is registered in.
AlignmentGroup(i) == fields.reg.group[fields.made[i].text]

\* C30: two Fields that differ in index or in group string are never in the
\* same alignment group, and a Field of index 0 never shares its alignment
\* group with a Field of another index.
C30_DistinctFieldsDistinctGroups ==
    \A i, j \in 1 .. Len(fields.made) :
        LET f == fields.made[i]
            g == fields.made[j]
        IN  /\ (f.index # g.index \/ f.group # g.group) =>
                  AlignmentGroup(i) # AlignmentGroup(j)
            /\ (f.index = 0 /\ g.index # 0) =>
                  AlignmentGroup(i) # AlignmentGroup(j)

\* The same for two Fields of indexes other than 0.
C30_DistinctNamedFieldsDistinctGroups ==
    \A i, j \in 1 .. Len(fields.made) :
        LET f == fields.made[i]
            g == fields.made[j]
        IN  (f.index # 0 /\ g.index # 0
             /\ (f.index # g.index \/ f.group # g.group)) =>
                  AlignmentGroup(i) # AlignmentGroup(j)

\* A Field of index 0 never shares its group with one of another index.
C30_MarkerGroupApart ==
    \A i, j \in 1 .. Len(fields.made) :
        (fields.made[i].index = 0 /\ fields.made[j].index # 0) =>
            AlignmentGroup(i) # AlignmentGroup(j)

\* ------------------------------------------------------------ sort order
\* The directories of the list q of elements.
DirsOf(q) == SelectSeq(q, LAMBDA e : e.is_dir)

\* name.lower()
LowerName(e) == [i \in 1 .. Len(e.name) |-> Ord(lower(e.name[i]))]

\* The elements of q are in the order of their names, case ignored.
OrderedIgnoringCase(q) ==
    \A i, j \in 1 .. Len(q) : i < j => ~SeqLess(LowerName(q[j]), LowerName(q[i]))

\* C25: for every sort strategy other than "none" the subdirectories of a
\* directory are in the order of their names, case ignored, whatever the
\* strategy is and whether they are empty or not.
C25_SubdirectoriesOrderedIgnoringCase ==
    sorting.method \in Strategies \ {"none"} =>
        OrderedIgnoringCase(DirsOf(sorting.listed))

\* The same of the directories sorted with the key of sort_name_method.
C25_NameKeyOrdersIgnoringCase ==
    (sorting.method = "name" /\ sorting.exc = "none") =>
        OrderedIgnoringCase(DirsOf(sorting.result))

\* C26: sort_method returns a key function for each of the strategies none,
\* name, iname, type and mime: selecting one of them never fails.
C26_EveryStrategySelectable ==
    sorting.method \in Strategies => sorting.exc # "KeyError"

\* C27: under the mime strategy the sort of the whole list completes without
\* raising, whatever the classifier does on an element.
C27_MimeSortNeverRaises ==
    sorting.method = "mime" =>
        /\ sorting.exc = "none"
        /\ Len(sorting.result) = Len(sorting.listed)

\* The three settings of a Config.
Settings(c) == <<c.recursive, c.subdirectories, c.hidden>>

\* C28 as stated: the first set_config call on a Config freezes it, so every
\* later call, with any arguments, leaves recursive, subdirectories and
\* hidden as the call found them.
C28_FrozenByFirstCall ==
    cfg.count >= 2 => Settings(cfg.obj) = Settings(cfg.before)

\* C28 amended: a Config is frozen by the first set_config call that gives a
\* value (not None) for each of the three arguments; every later call, with
\* any arguments, leaves recursive, subdirectories and hidden as they were.
\* A call with a None argument sets nothing and does not freeze the object.
C28_FrozenByFirstCompleteCall ==
    /\ cfg.frozen => Settings(cfg.obj) = Settings(cfg.before)
    /\ (cfg.count >= 1 /\ ~AllGiven(cfg.last)) =>
           /\ Settings(cfg.obj) = Settings(cfg.before)
           /\ cfg.obj.config_is_set = cfg.before.config_is_set

\* A call with three values, differing from the settings, made after an
\* earlier call with three values.
C28_Witness ==
    /\ cfg.frozen
    /\ AllGiven(cfg.last)
    /\ <<cfg.last[1][1], cfg.last[2][1], cfg.last[3][1]>> # Settings(cfg.obj)
    /\ cfg.last[1] = <<FALSE>>

\* C29: no interleaving of constructions, text assignments, group changes,
\* unify calls and finalizers on several threads deadlocks: a thread that has
\* requested the registry lock is given it, also when it holds the lock
\* already, and a thread that holds the lock gives it up.
C29_LockAcquiredAndReleased ==
    \A t \in Thr :
        /\ (pc[t] \in Requests) ~> (lock = t /\ pc[t] \notin Requests)
        /\ (lock = t) ~> (lock # t)

\* A finalizer runs inside a with-block of the thread that holds the lock and
\* has been given the lock for its own blocks, that of __del__ and that of
\* update_max_length_for_group, while another thread waits for the lock.
C29_Witness ==
    \E t \in Thr, u \in Thr :
        /\ pc[t] = "fin_update"
        /\ susp[t].pc \in Body
        /\ lock = t
        /\ u # t
        /\ pc[u] \in Requests

\* C31: x.group = g2 for an x of group g1 # g2 moves x in one call without
\* raising: afterwards x is a member of g2 and of no other group, the maximum
\* stored for g2 is at least len(x.text), and g1 has the longest text of the
\* members it keeps stored, or no member set and no stored maximum when it
\* keeps none; x.group = g1 changes nothing.
C31_GroupChangeMoves ==
    [][\A x \in Inst, g1 \in Groups, g2 \in Groups :
          (last'.op = "group" /\ last'.x = x /\ group[x] = g1 /\ last'.g = g2) =>
              /\ last'.exc = "none"
              /\ IF g1 = g2
                 THEN UNCHANGED <<instances, max_length, text, group, alive>>
                 ELSE /\ group'[x] = g2
                      /\ UNCHANGED <<text, alive>>
                      /\ \A y \in Inst \ {x} : group'[y] = group[y]
                      /\ \A g \in DOMAIN instances' : (x \in instances'[g]) = (g = g2)
                      /\ g2 \in DOMAIN instances' /\ g2 \in DOMAIN max_length'
                      /\ max_length'[g2] >= Len(text[x])
                      /\ IF LiveIn(g1)' # {}
                         THEN /\ g1 \in DOMAIN instances' /\ g1 \in DOMAIN max_length'
                              /\ instances'[g1] = LiveIn(g1)'
                              /\ max_length'[g1] = MaxLiveLen(g1)'
                         ELSE /\ g1 \notin DOMAIN instances'
                              /\ g1 \notin DOMAIN max_length']_vars
\* The longest member of a group has been moved to the other group, and the
\* group it left has a smaller maximum stored, that of the members it keeps.
C31_Witness ==
    /\ last.op = "group"
    /\ last.exc = "none"
    /\ last.gs # {last.g}
    /\ group[last.x] = last.g
    /\ \E g1 \in last.gs :
          /\ LiveIn(g1) # {}
          /\ MaxLiveLen(g1) < Len(text[last.x])
          /\ StoredMax(g1) = MaxLiveLen(g1)

\* The element n is below the directory d in the snapshot: d is its parent,
\* or the parent of its parent, and so on.
RECURSIVE BelowIn(_, _)
BelowIn(n, d) ==
    /\ elem[n].parent # NoNode
    /\ (elem[n].parent = d \/ BelowIn(elem[n].parent, d))

\* The directories apply_to_each has gone through: the one it was called on
\* and those below it.
Traversed ==
    {d \in Nodes : elem[d].st = "populated" /\ (d = calls.on \/ BelowIn(d, calls.on))}

\* The calls of func made for the element n.
CallsFor(n) == {i \in 1 .. Len(calls.seq) : calls.seq[i].element = n}

\* The call of func made for the element n.
CallOf(n) == CHOOSE i \in 1 .. Len(calls.seq) : calls.seq[i].element = n

\* C32: apply_to_each calls func, for every directory it goes through, for
\* all its files in the order of the file list and one right after the
\* other, then for its subdirectories in the order of their list; the call
\* for a subdirectory is followed at once by the calls for what it holds
\* (the one for None when it holds nothing), and these are all made before
\* the call for the next subdirectory of the list.
C32_PreOrderFilesFirst ==
    calls # NoCalls =>
        \A d \in Traversed :
            LET files == elem[d].content_files
                dirs == elem[d].content_directories
            IN  /\ \A i \in 1 .. Len(files) : CallsFor(files[i]) # {}
                /\ \A j \in 1 .. Len(dirs) : CallsFor(dirs[j]) # {}
                /\ \A i \in 1 .. Len(files) - 1 :
                      CallOf(files[i + 1]) = CallOf(files[i]) + 1
                /\ \A i \in 1 .. Len(files), j \in 1 .. Len(dirs) :
                      CallOf(files[i]) < CallOf(dirs[j])
                /\ \A j \in 1 .. Len(dirs) :
                      LET s == dirs[j]
                          k == CallOf(s) + 1
                      IN  /\ k <= Len(calls.seq)
                          /\ IF is_empty(elem[s])
                             THEN /\ calls.seq[k].element = NoNode
                                  /\ calls.seq[k].level = elem[s].level
                             ELSE /\ calls.seq[k].element # NoNode
                                  /\ elem[calls.seq[k].element].parent = s
                          /\ \A m \in 1 .. Len(calls.seq) :
                                (calls.seq[m].element # NoNode
                                 /\ BelowIn(calls.seq[m].element, s)) =>
                                    /\ CallOf(s) < m
                                    /\ j < Len(dirs) => m < CallOf(dirs[j + 1])
                          /\ j < Len(dirs) => CallOf(s) < CallOf(dirs[j + 1])
\* apply_to_each on a root with two subdirectories, the first of them with a
\* file and a subdirectory that os.scandir yields before the file.
C32_Witness ==
    /\ calls.on = Root
    /\ Len(elem[Root].content_directories) = 2
    /\ LET s == elem[Root].content_directories[1]
       IN  /\ elem[s].content_files # <<>>
           /\ elem[s].content_directories # <<>>
           /\ elem[s].content_directories[1] < elem[s].content_files[1]
           /\ CallOf(elem[s].content_files[1]) < CallOf(elem[s].content_directories[1])

\* C33: d.apply_to_each(func) calls func exactly once for every file and
\* every directory below d and for no other element, d included, and exactly
\* once with None, is_last True and the level of the directory for every
\* directory that is empty among d and the directories below it.
C33_EachElementOnceEmptyOnce ==
    calls # NoCalls =>
        /\ \A n \in Nodes :
              Cardinality(CallsFor(n)) = IF BelowIn(n, calls.on) THEN 1 ELSE 0
        /\ \A i \in CallsFor(NoNode) : calls.seq[i].is_last
        /\ \A lv \in 0 .. NNodes :
              Cardinality({i \in CallsFor(NoNode) : calls.seq[i].level = lv})
                  = Cardinality({d \in Traversed :
                                    is_empty(elem[d]) /\ elem[d].level = lv})
        /\ \A i \in CallsFor(NoNode) : calls.seq[i].level \in 0 .. NNodes
\* apply_to_each on a directory below the root that holds a file, an empty
\* directory and a directory that is not empty.
C33_Witness ==
    /\ calls.on # Root
    /\ calls.on # NoNode
    /\ elem[calls.on].content_files # <<>>
    /\ CallsFor(NoNode) # {}
    /\ Len(calls.seq) >= 3

\* The longest text among the SString objects of the group g.
LongestIn(g) ==
    MaxOf({Len(strings[j].text) : j \in {k \in DOMAIN strings : strings[k].group = g}})

\* C34: for every SString made, max_length is the largest length among the
\* objects of its group, and so at least the length of its own text,
\* whatever texts and extraLength values the objects of the group were made
\* with.
C34_MaxLengthIsGroupMaximum ==
    \A i \in DOMAIN strings :
        /\ max_length_of(i) = LongestIn(strings[i].group)
        /\ max_length_of(i) >= Len(strings[i].text)

\* The second half of C34 alone: max_length is at least the length of the
\* object's own text.
C34_AtLeastOwnLength ==
    \A i \in DOMAIN strings : max_length_of(i) >= Len(strings[i].text)

\* C35: between calls the member sets hold exactly the live instances, each
\* instance in the set of the group its group property names and in no
\* other; no member set is empty; get_instances_len_all() is the number of
\* live instances.
C35_MemberSetsAreLiveInstances ==
    /\ \A g \in DOMAIN instances :
          /\ instances[g] # {}
          /\ instances[g] = LiveIn(g)
    /\ \A x \in alive :
          /\ group[x] \in DOMAIN instances
          /\ \A g \in DOMAIN instances : (x \in instances[g]) = (g = group[x])
    /\ get_instances_len_all = Cardinality(alive)
\* Every instance is live and every group has one, the last call having
\* moved an instance from one group to the other.
C35_Witness ==
    /\ last.op = "group"
    /\ last.gs # {last.g}
    /\ Cardinality(alive) = NInst
    /\ \A g \in Groups : LiveIn(g) # {}
    /\ get_instances_len_all = NInst

\* In a finished snapshot every element of a list of a directory has that
\* directory as its parent, and the root has none.
ParentsAreListOwners ==
    status = "done" =>
        /\ elem[Root].parent = NoNode
        /\ \A d \in Nodes :
              /\ \A i \in 1 .. Len(elem[d].content_files) :
                    elem[elem[d].content_files[i]].parent = d
              /\ \A i \in 1 .. Len(elem[d].content_directories) :
                    elem[elem[d].content_directories[i]].parent = d

\* C36: in every finished snapshot each element of the file list or of the
\* subdirectory list of a directory D has D as its parent and the root has
\* no parent; the parent of an element, once set, is the same after every
\* later assignment.
C36_ParentIsListOwnerAndKept ==
    [][/\ ParentsAreListOwners'
       /\ \A n \in Nodes :
             elem[n].parent # NoNode => elem'[n].parent = elem[n].parent]_vars
\* A caller has assigned the root as the parent of an element two levels
\* below it, which has the parent the walk gave it.
C36_Witness ==
    /\ assigned # <<>>
    /\ assigned[2] = Root
    /\ elem[assigned[1]].level = 2
    /\ elem[assigned[1]].parent # Root
    /\ InList(elem[elem[assigned[1]].parent].content_files, assigned[1])

\* C37: in every state of a Config object, after any set_config calls with
\* any arguments, recursive = True implies subdirectories = True.
C37_RecursiveImpliesSubdirectories ==
    cfg.obj.recursive => cfg.obj.subdirectories
\* set_config(True, False, hidden) was the call that set the Config, which
\* is recursive with subdirectories.
C37_Witness ==
    /\ cfg.count >= 1
    /\ cfg.last[1] = <<TRUE>>
    /\ cfg.last[2] = <<FALSE>>
    /\ cfg.last[3] # None
    /\ ~cfg.before.config_is_set
    /\ cfg.obj.config_is_set
    /\ cfg.obj.recursive
    /\ cfg.obj.subdirectories

=============================================================================
